---- MODULE Spec2Model ----
(***************************************************************************)
(* A model of the PolkaVM interpreter backend                              *)
(* (crates/polkavm/src/interpreter.rs): the instance state, the execution  *)
(* driver (new, prepare_for_call, run, step_once, call, reset_memory), the *)
(* instruction visitor and the access handle given to host callbacks.      *)
(*                                                                         *)
(* Encodings.                                                              *)
(*  - A u32 (register, address, immediate) is held as the integer with the *)
(*    same 32 bits read as two's complement, so 0xffff0000 is -65536 and   *)
(*    every value below 2^31 is itself.  TLC's integers are 32 bits wide.  *)
(*  - A 64-bit quantity (gas_remaining: i64, the u64 argument of           *)
(*    consume_gas, a Gas budget) is held exactly as [k, off], standing for *)
(*    k * 2^63 + off with |off| < 2^30.  Every value the model handles is  *)
(*    that close to a multiple of 2^63, so the pair is unique and sums and *)
(*    differences are componentwise.                                       *)
(*  - Option<T> is a sequence: None is << >> and Some(x) is <<x>>.         *)
(*  - Positions (nth_instruction, nth_basic_block, jump-table indices) are *)
(*    0-based as in the source; TLA+ sequences are 1-based, hence the +1   *)
(*    where a table is read.                                               *)
(***************************************************************************)
EXTENDS Integers, Sequences, FiniteSets, TLC

----------------------------------------------------------------------------
(* Option<T> *)

None == << >>
Some(x) == <<x>>
IsSome(o) == o # << >>
Unwrap(o) == o[1]

----------------------------------------------------------------------------
(* 64-bit quantities: [k, off] is k * 2^63 + off *)

Big(k, off) == [k |-> k, off |-> off]
\* i64::from(n) and u64 from a small non-negative number
G(n) == Big(0, n)
BigAdd(a, b) == Big(a.k + b.k, a.off + b.off)
BigSub(a, b) == Big(a.k - b.k, a.off - b.off)
BigLt0(a) == a.k < 0 \/ (a.k = 0 /\ a.off < 0)
BigLe(a, b) == ~BigLt0(BigSub(b, a))
\* -2^63 <= a <= 2^63 - 1
InI64(a) == \/ a.k = 0
            \/ a.k = -1 /\ a.off >= 0
            \/ a.k = 1 /\ a.off < 0
\* the i64 congruent to a modulo 2^64 (two's complement wrap-around)
WrapI64(a) == IF a.k % 2 = 0 THEN Big(0, a.off)
              ELSE IF a.off >= 0 THEN Big(-1, a.off) ELSE Big(1, a.off)
\* `x as u64` of an i64 x
I64AsU64(a) == IF BigLt0(a) THEN Big(a.k + 2, a.off) ELSE a
I64_MAX == Big(1, -1)
I64_MIN == Big(-1, 0)
U64_MAX == Big(2, -1)

----------------------------------------------------------------------------
(* u32 arithmetic on the two's-complement encoding *)

\* 16-bit halves of a word: lo in 0..65535, hi in -32768..32767
Lo16(a) == a % 65536
Hi16(a) == a \div 65536
\* the word with the given halves (hi taken modulo 2^16)
Word(hi, lo) == LET h == hi % 65536
                IN (IF h >= 32768 THEN h - 65536 ELSE h) * 65536 + lo
\* u32::wrapping_add
wrapping_add(a, b) ==
    LET lo == Lo16(a) + Lo16(b)
    IN Word(Hi16(a) + Hi16(b) + (lo \div 65536), lo % 65536)
\* a < b as u32
LtU(a, b) == IF (a < 0) = (b < 0) THEN a < b ELSE b < 0
\* a / n and a % n as u32, for a divisor n = 2^j with 1 <= j <= 30
DivU(a, n) == IF a >= 0 THEN a \div n ELSE (a \div n) + 4 * (1073741824 \div n)
ModU(a, n) == a % n

\* 2^k for 0 <= k <= 30
RECURSIVE Pow2(_)
Pow2(k) == IF k = 0 THEN 1 ELSE 2 * Pow2(k - 1)
\* bit k of a word, 0 <= k <= 31
BitOf(a, k) == IF k = 31 THEN (IF a < 0 THEN 1 ELSE 0) ELSE (a \div Pow2(k)) % 2
\* the word with the given bits
WordOfBits(bits) ==
    LET RECURSIVE Sum(_)
        Sum(k) == IF k < 0 THEN 0 ELSE bits[k] * Pow2(k) + Sum(k - 1)
    IN Sum(30) - (IF bits[31] = 1 THEN 2147483647 ELSE 0) - bits[31]
\* s1 & s2, s1 | s2, s1 ^ s2
BitAnd(a, b) == WordOfBits([k \in 0..31 |-> BitOf(a, k) * BitOf(b, k)])
BitOr(a, b) == WordOfBits([k \in 0..31 |-> IF BitOf(a, k) + BitOf(b, k) > 0 THEN 1 ELSE 0])
BitXor(a, b) == WordOfBits([k \in 0..31 |-> (BitOf(a, k) + BitOf(b, k)) % 2])
\* u32::wrapping_sub
wrapping_sub(a, b) == wrapping_add(wrapping_add(a, IF b < 0 THEN -(b + 1) ELSE -b - 1), 1)
\* u32::wrapping_shr, u32::wrapping_shl, i32::wrapping_shr: the amount is
\* taken modulo 32
wrapping_shr(a, n) ==
    WordOfBits([k \in 0..31 |-> IF k + (n % 32) <= 31 THEN BitOf(a, k + (n % 32)) ELSE 0])
wrapping_shl(a, n) ==
    WordOfBits([k \in 0..31 |-> IF k >= n % 32 THEN BitOf(a, k - (n % 32)) ELSE 0])
i32_wrapping_shr(a, n) ==
    WordOfBits([k \in 0..31 |->
                   IF k + (n % 32) <= 31 THEN BitOf(a, k + (n % 32)) ELSE BitOf(a, 31)])
\* the four bytes of a word, least significant first, and the word of four bytes
Bytes4(a) == [k \in 0..3 |-> (a \div Pow2(8 * k)) % 256]
WordOfBytes(b0, b1, b2, b3) == Word(b3 * 256 + b2, b1 * 256 + b0)
\* the eight bytes of the 64-bit product of two u32
Product(a, b) ==
    LET x == Bytes4(a)
        y == Bytes4(b)
        RECURSIVE Column(_, _)
        Column(k, i) ==
            IF i > 3 THEN 0
            ELSE (IF k - i \in 0..3 THEN x[i] * y[k - i] ELSE 0) + Column(k, i + 1)
        RECURSIVE Carry(_)
        Carry(k) == IF k < 0 THEN 0 ELSE (Column(k, 0) + Carry(k - 1)) \div 256
    IN [k \in 0..7 |-> (Column(k, 0) + (IF k = 0 THEN 0 ELSE Carry(k - 1))) % 256]
\* u32::wrapping_mul
wrapping_mul(a, b) ==
    WordOfBytes(Product(a, b)[0], Product(a, b)[1], Product(a, b)[2], Product(a, b)[3])
\* polkavm_common::operation: the upper half of the product, the operands
\* taken as unsigned, as signed, and as signed times unsigned
mulhu(a, b) ==
    WordOfBytes(Product(a, b)[4], Product(a, b)[5], Product(a, b)[6], Product(a, b)[7])
mulh(a, b) ==
    wrapping_sub(wrapping_sub(mulhu(a, b), IF a < 0 THEN b ELSE 0), IF b < 0 THEN a ELSE 0)
mulhsu(a, b) == wrapping_sub(mulhu(a, b), IF a < 0 THEN b ELSE 0)
\* a as u32 divided by b as u32, b # 0: <<quotient, remainder>>.  A divisor
\* of 2^31 or more goes into a at most once; a dividend of 2^31 or more is
\* divided in two halves.
DivModU(a, b) ==
    IF b < 0 THEN (IF LtU(a, b) THEN <<0, a>> ELSE <<1, wrapping_sub(a, b)>>)
    ELSE IF a >= 0 THEN <<a \div b, a % b>>
    ELSE LET h == wrapping_shr(a, 1)
             q1 == h \div b
             r1 == h % b
             l == BitOf(a, 0)
         IN IF r1 >= b - r1 - l
            THEN <<wrapping_add(wrapping_add(q1, q1), 1), r1 - (b - r1 - l)>>
            ELSE <<wrapping_add(q1, q1), r1 + r1 + l>>
\* polkavm_common::operation: division and remainder
divu(a, b) == IF b = 0 THEN -1 ELSE DivModU(a, b)[1]
remu(a, b) == IF b = 0 THEN a ELSE DivModU(a, b)[2]
I32_MIN == -2147483647 - 1
Abs32(a) == IF a < 0 THEN wrapping_sub(0, a) ELSE a
div(a, b) ==
    IF b = 0 THEN -1
    ELSE IF a = I32_MIN /\ b = -1 THEN a
    ELSE IF (a < 0) = (b < 0) THEN DivModU(Abs32(a), Abs32(b))[1]
    ELSE wrapping_sub(0, DivModU(Abs32(a), Abs32(b))[1])
rem(a, b) ==
    IF b = 0 THEN a
    ELSE IF a = I32_MIN /\ b = -1 THEN 0
    ELSE IF a < 0 THEN wrapping_sub(0, DivModU(Abs32(a), Abs32(b))[2])
    ELSE DivModU(Abs32(a), Abs32(b))[2]

----------------------------------------------------------------------------
(* Guest ABI (polkavm_common::abi) and the register file *)

\* 0xffff0000
VM_ADDR_RETURN_TO_HOST == -65536
VM_CODE_ADDRESS_ALIGNMENT == 4
\* 0x00010000, where the guest's memory starts
VM_ADDR_USER_MEMORY == 65536

\* polkavm_common::program::Reg, Reg::ALL (13 registers)
Reg == {"RA", "SP", "T0", "T1", "T2", "S0", "S1", "A0", "A1", "A2", "A3", "A4", "A5"}

----------------------------------------------------------------------------
(* Instructions (polkavm_common::program::Instruction) and their assembler *)
(* constructors (polkavm_common::program::asm).  Every record has the same *)
(* fields; a constructor fills the ones its instruction has.               *)

NoInstr == [op |-> "", d |-> "RA", s1 |-> "RA", s2 |-> "RA", imm |-> 0, target |-> 0,
            value |-> 0]
asm_trap == [NoInstr EXCEPT !.op = "trap"]
asm_fallthrough == [NoInstr EXCEPT !.op = "fallthrough"]
asm_ecalli(imm) == [NoInstr EXCEPT !.op = "ecalli", !.imm = imm]
asm_add(d, s1, s2) == [NoInstr EXCEPT !.op = "add", !.d = d, !.s1 = s1, !.s2 = s2]
asm_add_imm(d, s1, imm) == [NoInstr EXCEPT !.op = "add_imm", !.d = d, !.s1 = s1, !.imm = imm]
asm_load_imm(d, imm) == [NoInstr EXCEPT !.op = "load_imm", !.d = d, !.imm = imm]
asm_move_reg(d, s) == [NoInstr EXCEPT !.op = "move_reg", !.d = d, !.s1 = s]
asm_branch_eq_imm(s1, imm, target) ==
    [NoInstr EXCEPT !.op = "branch_eq_imm", !.s1 = s1, !.imm = imm, !.target = target]
asm_branch_not_eq(s1, s2, target) ==
    [NoInstr EXCEPT !.op = "branch_not_eq", !.s1 = s1, !.s2 = s2, !.target = target]
\* the branches that compare a register with an immediate, and all branches
BranchImmOps ==
    {"branch_less_unsigned_imm", "branch_less_signed_imm", "branch_eq_imm",
     "branch_not_eq_imm", "branch_greater_or_equal_unsigned_imm",
     "branch_greater_or_equal_signed_imm", "branch_less_or_equal_unsigned_imm",
     "branch_less_or_equal_signed_imm", "branch_greater_unsigned_imm",
     "branch_greater_signed_imm"}
BranchOps ==
    BranchImmOps \cup
    {"branch_less_unsigned", "branch_less_signed", "branch_eq", "branch_not_eq",
     "branch_greater_or_equal_unsigned", "branch_greater_or_equal_signed"}
\* any branch; s2 is a register, or the immediate of an _imm branch
asm_branch(op, s1, s2, target) ==
    IF op \in BranchImmOps
    THEN [NoInstr EXCEPT !.op = op, !.s1 = s1, !.imm = s2, !.target = target]
    ELSE [NoInstr EXCEPT !.op = op, !.s1 = s1, !.s2 = s2, !.target = target]
asm_jump(target) == [NoInstr EXCEPT !.op = "jump", !.target = target]
asm_jump_indirect(base, offset) ==
    [NoInstr EXCEPT !.op = "jump_indirect", !.s1 = base, !.imm = offset]
asm_call(ra, target) == [NoInstr EXCEPT !.op = "call", !.d = ra, !.target = target]
asm_call_indirect(ra, base, offset) ==
    [NoInstr EXCEPT !.op = "call_indirect", !.d = ra, !.s1 = base, !.imm = offset]
\* asm::ret(): a dynamic jump to the address in RA
asm_ret == asm_jump_indirect("RA", 0)
\* loads: d is the destination, s1 the base register, imm the offset
asm_load_u8(dst, offset) == [NoInstr EXCEPT !.op = "load_u8", !.d = dst, !.imm = offset]
asm_load_indirect_u8(dst, base, offset) ==
    [NoInstr EXCEPT !.op = "load_indirect_u8", !.d = dst, !.s1 = base, !.imm = offset]
asm_load_indirect_i8(dst, base, offset) ==
    [NoInstr EXCEPT !.op = "load_indirect_i8", !.d = dst, !.s1 = base, !.imm = offset]
asm_load_indirect_u16(dst, base, offset) ==
    [NoInstr EXCEPT !.op = "load_indirect_u16", !.d = dst, !.s1 = base, !.imm = offset]
asm_load_indirect_i16(dst, base, offset) ==
    [NoInstr EXCEPT !.op = "load_indirect_i16", !.d = dst, !.s1 = base, !.imm = offset]
asm_load_indirect_u32(dst, base, offset) ==
    [NoInstr EXCEPT !.op = "load_indirect_u32", !.d = dst, !.s1 = base, !.imm = offset]
\* stores: s2 is the source register or value the immediate, s1 the base
\* register, imm the offset
asm_store_u8(src, offset) == [NoInstr EXCEPT !.op = "store_u8", !.s2 = src, !.imm = offset]
asm_store_imm_u32(value, offset) ==
    [NoInstr EXCEPT !.op = "store_imm_u32", !.value = value, !.imm = offset]
asm_store_indirect_u8(src, base, offset) ==
    [NoInstr EXCEPT !.op = "store_indirect_u8", !.s2 = src, !.s1 = base, !.imm = offset]
asm_store_indirect_u16(src, base, offset) ==
    [NoInstr EXCEPT !.op = "store_indirect_u16", !.s2 = src, !.s1 = base, !.imm = offset]
asm_store_indirect_u32(src, base, offset) ==
    [NoInstr EXCEPT !.op = "store_indirect_u32", !.s2 = src, !.s1 = base, !.imm = offset]
\* the three-operand instructions: two registers, a register and an immediate,
\* and (_alt) an immediate and a register; op is the name of the handler
asm_reg_reg(op, d, s1, s2) == [NoInstr EXCEPT !.op = op, !.d = d, !.s1 = s1, !.s2 = s2]
asm_reg_imm(op, d, s1, s2) == [NoInstr EXCEPT !.op = op, !.d = d, !.s1 = s1, !.imm = s2]
asm_imm_reg(op, d, s2, s1) == [NoInstr EXCEPT !.op = op, !.d = d, !.s2 = s2, !.imm = s1]
asm_load_u32(dst, offset) == [NoInstr EXCEPT !.op = "load_u32", !.d = dst, !.imm = offset]
asm_store_u32(src, offset) == [NoInstr EXCEPT !.op = "store_u32", !.s2 = src, !.imm = offset]

\* The instructions that end a basic block by entering another one.
ControlOps ==
    {"fallthrough", "jump", "call", "jump_indirect", "call_indirect"} \cup BranchOps

----------------------------------------------------------------------------
(* Modules.  A module is what the interpreter reads from `Module` and      *)
(* `InterpretedModule`: the instruction stream, the per-block gas costs,   *)
(* the block and jump tables, the exports, the memory configuration and    *)
(* the gas-metering kind.                                                  *)

\* Vec::resize(n, 0) after the vector was filled from `data`
Resize(data, n) == [i \in 1..n |-> IF i <= Len(data) THEN data[i] ELSE 0]

\* Model sizes of the three memory regions, in bytes.
RoDataSize == 2
HeapSize == 4
StackSize == 2

\* InterpretedModule::new and the Module accessors the interpreter calls
InterpretedModule(instructions, costs, blocks, jump_table, exports, init_ro_data, init_rw_data) ==
    [instructions |-> instructions,
     ro_data |-> Resize(init_ro_data, RoDataSize),
     rw_data |-> init_rw_data,
     gas_cost_for_basic_block |-> costs,
     instruction_by_basic_block |-> blocks,
     jump_table |-> jump_table,
     exports |-> exports,
     heap_size |-> HeapSize,
     stack_size |-> StackSize,
     gas_metering |-> None]

\* tests.rs, basic_gas_metering: one block of two instructions, cost 2
GasProgram ==
    InterpretedModule(<<asm_add_imm("A0", "A0", 666), asm_ret>>,
                      <<2>>, <<0>>, << >>, <<0>>, << >>, << >>)

\* tests.rs, consume_gas_in_host_function: one block of two instructions, cost 2
\* (the callback sees 1 of a budget of 3)
HostProgram ==
    InterpretedModule(<<asm_ecalli(0), asm_ret>>,
                      <<2>>, <<0>>, << >>, <<0>>, << >>, << >>)

\* A program with every kind of block entry.  Blocks (first instruction, cost):
\*   @0 (0, 1)  branch_eq_imm A0, 0 -> @2
\*   @1 (1, 2)  add_imm A1, A1, 1; fallthrough
\*   @2 (3, 1)  call T0 -> @4            return address: jump-table index 1
\*   @3 (4, 1)  jump_indirect S1
\*   @4 (5, 1)  jump_indirect T0
\*   @5 (6, 0)  jump @0
\*   @6 (7, 1)  call_indirect T0, S0+4   return address: jump-table index 4
\*   @7 (8, 1)  trap
\* Exports: @0, @3 and @6.  The jump table also has an entry at index 0 (code
\* address 0), which no dynamic jump may use.
FlowProgram ==
    InterpretedModule(
        <<asm_branch_eq_imm("A0", 0, 2),
          asm_add_imm("A1", "A1", 1), asm_fallthrough,
          asm_call("T0", 4),
          asm_jump_indirect("S1", 0),
          asm_jump_indirect("T0", 0),
          asm_jump(0),
          asm_call_indirect("T0", "S0", 4),
          asm_trap>>,
        <<1, 2, 1, 1, 1, 0, 1, 1>>,
        <<0, 1, 3, 4, 5, 6, 7, 8>>,
        (0 :> 6) @@ (1 :> 3) @@ (2 :> 5) @@ (3 :> 6) @@ (4 :> 7),
        <<0, 3, 6>>, <<9>>, <<1, 2>>)

\* A program of stores and loads, one block per export, each ending in ret.
\* The host passes the value to store in S1, the address to store to in S0
\* and the address to load from in A0.
\*   @0 (0)   store_indirect_u8 S1, [S0]; load_indirect_u8 A2, [A0]; load_indirect_i8 A3, [A0]; ret
\*   @1 (4)   store_indirect_u16 S1, [S0]; load_indirect_u16 A2, [A0]; load_indirect_i16 A3, [A0]; ret
\*   @2 (8)   store_indirect_u32 S1, [S0]; load_indirect_u32 A2, [A0]; ret
\*   @3 (11)  load_u8 A3, [second read-only byte]; store_u8 S1, [last stack byte];
\*            load_indirect_u16 A2, [A0 - 1]; ret
\* Read-only data: 7, 200.  Initial heap data: 1, 2.
MemProgram ==
    InterpretedModule(
        <<asm_store_indirect_u8("S1", "S0", 0),
          asm_load_indirect_u8("A2", "A0", 0), asm_load_indirect_i8("A3", "A0", 0), asm_ret,
          asm_store_indirect_u16("S1", "S0", 0),
          asm_load_indirect_u16("A2", "A0", 0), asm_load_indirect_i16("A3", "A0", 0), asm_ret,
          asm_store_indirect_u32("S1", "S0", 0),
          asm_load_indirect_u32("A2", "A0", 0), asm_ret,
          asm_load_u8("A3", VM_ADDR_USER_MEMORY + 1),
          asm_store_u8("S1", VM_ADDR_USER_MEMORY + RoDataSize + HeapSize + StackSize - 1),
          asm_load_indirect_u16("A2", "A0", -1), asm_ret>>,
        <<1, 1, 1, 1>>,
        <<0, 4, 8, 11>>,
        << >>,
        <<0, 1, 2, 3>>, <<7, 200>>, <<1, 2>>)

\* tests.rs, basic_test_blob: one block; no read-only data, so that the heap
\* starts at VM_ADDR_USER_MEMORY
BasicTestProgram ==
    [InterpretedModule(<<asm_store_imm_u32(305419896, VM_ADDR_USER_MEMORY),
                         asm_add("S0", "A0", "A1"),
                         asm_ecalli(0),
                         asm_add("A0", "A0", "S0"),
                         asm_ret>>,
                       <<5>>, <<0>>, << >>, <<0>>, << >>, << >>)
        EXCEPT !.ro_data = << >>]

\* tests.rs, test_blob_atomic_fetch_add: a guest with a global counter, the
\* u32 at the start of the heap, which starts at 0.  It adds A0 to the counter
\* and returns the old value.  One block, cost 2.
\*   @0 (0)  load_u32 A1, [heap]; add A2, A1, A0; store_u32 A2, [heap];
\*           move_reg A0, A1; ret
CounterProgram ==
    InterpretedModule(<<asm_load_u32("A1", VM_ADDR_USER_MEMORY + RoDataSize),
                        asm_add("A2", "A1", "A0"),
                        asm_store_u32("A2", VM_ADDR_USER_MEMORY + RoDataSize),
                        asm_move_reg("A0", "A1"),
                        asm_ret>>,
                      <<2>>, <<0>>, << >>, <<0>>, << >>, << >>)

\* The same guest with a counter that starts at 5 and a call of the host
\* between the store and the return, so that a call can fail with the counter
\* already written.  One block, cost 2.
\*   @0 (0)  load_u32 A1, [heap]; add A2, A1, A0; store_u32 A2, [heap];
\*           ecalli 0; move_reg A0, A1; ret
HostCounterProgram ==
    InterpretedModule(<<asm_load_u32("A1", VM_ADDR_USER_MEMORY + RoDataSize),
                        asm_add("A2", "A1", "A0"),
                        asm_store_u32("A2", VM_ADDR_USER_MEMORY + RoDataSize),
                        asm_ecalli(0),
                        asm_move_reg("A0", "A1"),
                        asm_ret>>,
                      <<2>>, <<0>>, << >>, <<0>>, << >>, <<5>>)

\* A guest that stores a u16 and calls the host with three arguments in A0,
\* A1 and A2, as the guest of the tests does for ext_rom_read (pointer,
\* offset, length) and ext_output_video (address, width, height).  One block,
\* cost 1.
\*   @0 (0)  store_indirect_u16 S1, [S0]; ecalli 0; ret
AccessProgram ==
    InterpretedModule(<<asm_store_indirect_u16("S1", "S0", 0), asm_ecalli(0), asm_ret>>,
                      <<1>>, <<0>>, << >>, <<0>>, <<9>>, <<5>>)

\* One instruction and a return: one block, cost 1.
ArithProgram(i) ==
    InterpretedModule(<<i, asm_ret>>, <<1>>, <<0>>, << >>, <<0>>, << >>, << >>)

\* A branch or a jump i to @2, over a block of two instructions.  Blocks
\* (first instruction, cost):
\*   @0 (0, 1)  i -> @2
\*   @1 (1, 2)  add_imm A2, A2, 1; ret
\*   @2 (3, 1)  ret
BranchProgram(i) ==
    InterpretedModule(<<i, asm_add_imm("A2", "A2", 1), asm_ret, asm_ret>>,
                      <<1, 2, 1>>, <<0, 1, 3>>, << >>, <<0>>, << >>, << >>)

GasMeteringKinds == {None, Some("Sync"), Some("Async")}

\* Module::instructions().get(n): n is a u32 used as an index
instructions_get(m, n) ==
    IF n >= 0 /\ n < Len(m.instructions) THEN Some(m.instructions[n + 1]) ELSE None
\* Module::instruction_by_basic_block
instruction_by_basic_block(m, b) ==
    IF b >= 0 /\ b < Len(m.instruction_by_basic_block)
    THEN Some(m.instruction_by_basic_block[b + 1]) ELSE None
\* Module::basic_block_by_jump_table_index
basic_block_by_jump_table_index(m, j) ==
    IF j \in DOMAIN m.jump_table THEN Some(m.jump_table[j]) ELSE None
\* Module::jump_table_index_by_basic_block, the inverse of the jump table
jump_table_index_by_basic_block(m, b) ==
    IF \E j \in DOMAIN m.jump_table : m.jump_table[j] = b
    THEN Some(CHOOSE j \in DOMAIN m.jump_table : m.jump_table[j] = b) ELSE None
\* Module::get_export(i).address()
get_export(m, i) ==
    IF i >= 0 /\ i < Len(m.exports) THEN Some(m.exports[i + 1]) ELSE None
\* Module::memory_config(): three contiguous address ranges, read-only data
\* first, each as long as its buffer
ro_data_range(m) ==
    [start |-> VM_ADDR_USER_MEMORY, end |-> VM_ADDR_USER_MEMORY + Len(m.ro_data)]
heap_range(m) ==
    [start |-> VM_ADDR_USER_MEMORY + Len(m.ro_data),
     end |-> VM_ADDR_USER_MEMORY + Len(m.ro_data) + m.heap_size]
stack_range(m) ==
    [start |-> VM_ADDR_USER_MEMORY + Len(m.ro_data) + m.heap_size,
     end |-> VM_ADDR_USER_MEMORY + Len(m.ro_data) + m.heap_size + m.stack_size]
\* Range<u32>::contains
Contains(range, a) == ~LtU(a, range.start) /\ LtU(a, range.end)

----------------------------------------------------------------------------
(* State *)

VARIABLES
    module,            \* the Module the instance was built from
    overflow_checks,   \* the build: TRUE when integer overflow panics, FALSE when it wraps
    \* InterpretedInstance
    heap, stack, regs, nth_instruction, nth_basic_block, return_to_host,
    cycle_counter, gas_remaining, in_new_execution,
    phase,             \* "live", or "panicked" once an operation has panicked
    \* observations
    last,              \* the last operation: its name and outcome
    hist,              \* the outcomes of the finished call()s, when the host keeps them
    keep_history       \* whether the host keeps them

instance_vars == <<heap, stack, regs, nth_instruction, nth_basic_block, return_to_host,
                   cycle_counter, gas_remaining, in_new_execution>>
vars == <<module, overflow_checks, instance_vars, phase, last, hist, keep_history>>

\* The InterpretedInstance as one record, and the assignment of one to the variables.
Self ==
    [heap |-> heap, stack |-> stack, regs |-> regs, nth_instruction |-> nth_instruction,
     nth_basic_block |-> nth_basic_block, return_to_host |-> return_to_host,
     cycle_counter |-> cycle_counter, gas_remaining |-> gas_remaining,
     in_new_execution |-> in_new_execution]
Commit(s) ==
    /\ heap' = s.heap
    /\ stack' = s.stack
    /\ regs' = s.regs
    /\ nth_instruction' = s.nth_instruction
    /\ nth_basic_block' = s.nth_basic_block
    /\ return_to_host' = s.return_to_host
    /\ cycle_counter' = s.cycle_counter
    /\ gas_remaining' = s.gas_remaining
    /\ in_new_execution' = s.in_new_execution

----------------------------------------------------------------------------
(* Results and event logs.  An operation returns the new instance, its     *)
(* outcome ("Ok", "Trap", "OutOfGas", or "Panic" when the code panics) and *)
(* the events it went through, in order.                                   *)

Ret(s, res, log) == [st |-> s, res |-> res, log |-> log]
\* the `?` operator: r2, what follows from r.st, counts only after Ok
Then(r, r2) ==
    IF r.res # "Ok" THEN r ELSE Ret(r2.st, r2.res, r.log \o r2.log)
\* go to the next instruction, had it also moved to the next block
advance_block(s) ==
    Ret([s EXCEPT !.nth_instruction = @ + 1, !.nth_basic_block = @ + 1], "Ok", << >>)
\* the instruction is done: go to the next one
Advance(s) == Ret([s EXCEPT !.nth_instruction = @ + 1], "Ok", << >>)

NoEvent == [ev |-> "", at |-> 0, op |-> "", before |-> None, after |-> None,
            amt |-> G(0), reg |-> "RA", val |-> 0, budget |-> None, bytes |-> << >>]
\* prepare_for_call ran with config.gas = budget
EvPrepare(budget, before, after) ==
    [NoEvent EXCEPT !.ev = "prepare", !.budget = budget, !.before = before, !.after = after]
\* on_start_new_basic_block ran for block b; the balance before and after
EvEnter(b, before, after) ==
    [NoEvent EXCEPT !.ev = "enter", !.at = b, !.before = before, !.after = after]
\* instruction number n, of kind op, was handed to the visitor
EvDispatch(n, op) == [NoEvent EXCEPT !.ev = "dispatch", !.at = n, !.op = op]
\* the host callback was invoked for ecalli(imm)
EvHostcall(imm) == [NoEvent EXCEPT !.ev = "hostcall", !.at = imm]
\* the callback read gas_remaining() and got `reported`; `before` is the counter
EvGasRemaining(internal, reported) ==
    [NoEvent EXCEPT !.ev = "gas_remaining", !.before = internal, !.after = reported]
\* the callback called consume_gas(n)
EvConsumeGas(n, before, after) ==
    [NoEvent EXCEPT !.ev = "consume_gas", !.amt = n, !.before = before, !.after = after]
\* check_gas ran
EvCheckGas(gas) == [NoEvent EXCEPT !.ev = "check_gas", !.before = gas, !.after = gas]
\* the on_set_reg observer was invoked
EvSetReg(reg, val) == [NoEvent EXCEPT !.ev = "set_reg", !.reg = reg, !.val = val]
\* the on_store observer was invoked
EvStore(address, bytes) == [NoEvent EXCEPT !.ev = "store", !.at = address, !.bytes = bytes]
\* the callback called read_memory_into_slice (op "read") or write_memory (op
\* "write") of the access handle for `bytes` at `address`; ok: it succeeded
EvAccess(op, address, bytes, ok) ==
    [NoEvent EXCEPT !.ev = "access", !.op = op, !.at = address, !.bytes = bytes,
                    !.val = IF ok THEN 1 ELSE 0]
\* the host callback read the u32 val at address
EvReadMemory(address, val) == [NoEvent EXCEPT !.ev = "read_memory", !.at = address, !.val = val]

----------------------------------------------------------------------------
(* InterpretedInstance: construction, memory, gas *)

\* reset_memory, had it left the stack as it was
reset_memory_heap_only(m, s) ==
    [s EXCEPT !.heap = Resize(m.rw_data, m.heap_size),
              !.stack = IF Len(@) = m.stack_size THEN @ ELSE Resize(<< >>, m.stack_size)]

\* reset_memory, had it left out heap.clear() and stack.clear(): what is
\* there stays, the initial data is appended and cut off
reset_memory_without_clear(m, s) ==
    [s EXCEPT !.heap = Resize(@ \o m.rw_data, m.heap_size),
              !.stack = Resize(@, m.stack_size)]

\* reset_memory, had it left out heap.resize(heap_size, 0)
reset_memory_unpadded(m, s) ==
    [s EXCEPT !.heap = m.rw_data,
              !.stack = Resize(<< >>, m.stack_size)]

\* InterpretedInstance::reset_memory
reset_memory(m, s) ==
    [s EXCEPT !.heap = Resize(m.rw_data, m.heap_size),
              !.stack = Resize(<< >>, m.stack_size)]

\* <[u8]>::get(from..to), and the same range with `bytes` copied over it
slice_get(memory, from, to) ==
    IF from <= to /\ to <= Len(memory) THEN Some(SubSeq(memory, from + 1, to)) ELSE None
copy_from_slice(memory, from, bytes) ==
    [i \in 1..Len(memory) |->
        IF i > from /\ i <= from + Len(bytes) THEN bytes[i - from] ELSE memory[i]]

\* the slice of `length` bytes that starts at `address` in a buffer that holds `range`
slice_of(memory, range, address, length) ==
    slice_get(memory, address - range.start, address - range.start + length)

\* get_memory_slice, had it looked at the first byte only and let the slice
\* run on into what follows the buffer, read as zeros
get_memory_slice_unbounded(m, s, address, length) ==
    IF Contains(ro_data_range(m), address)
    THEN slice_of(m.ro_data \o [k \in 1..length |-> 0], ro_data_range(m), address, length)
    ELSE IF Contains(heap_range(m), address)
    THEN slice_of(s.heap \o [k \in 1..length |-> 0], heap_range(m), address, length)
    ELSE IF Contains(stack_range(m), address)
    THEN slice_of(s.stack \o [k \in 1..length |-> 0], stack_range(m), address, length)
    ELSE None

\* InterpretedInstance::get_memory_slice: the bytes, if the region that holds
\* `address` holds all of them
get_memory_slice(m, s, address, length) ==
    IF Contains(ro_data_range(m), address)
    THEN slice_of(m.ro_data, ro_data_range(m), address, length)
    ELSE IF Contains(heap_range(m), address)
    THEN slice_of(s.heap, heap_range(m), address, length)
    ELSE IF Contains(stack_range(m), address)
    THEN slice_of(s.stack, stack_range(m), address, length)
    ELSE None

\* the place of a slice: the buffer and the offset into it
place_of(buffer, memory, range, address, length) ==
    IF IsSome(slice_of(memory, range, address, length))
    THEN Some([buffer |-> buffer, offset |-> address - range.start]) ELSE None

\* get_memory_slice_mut, had it handed out whatever part of the range the
\* buffer holds
get_memory_slice_mut_partial(m, s, address, length) ==
    IF Contains(heap_range(m), address)
    THEN Some([buffer |-> "heap", offset |-> address - heap_range(m).start])
    ELSE IF Contains(stack_range(m), address)
    THEN Some([buffer |-> "stack", offset |-> address - stack_range(m).start])
    ELSE None

\* InterpretedInstance::get_memory_slice_mut: the place of the bytes, if heap
\* or stack holds all of them
get_memory_slice_mut(m, s, address, length) ==
    IF Contains(heap_range(m), address)
    THEN place_of("heap", s.heap, heap_range(m), address, length)
    ELSE IF Contains(stack_range(m), address)
    THEN place_of("stack", s.stack, stack_range(m), address, length)
    ELSE None

\* new, had it created the gas counter whether or not the module is metered
new_always_metered(m) ==
    reset_memory(m,
        [heap |-> << >>, stack |-> << >>,
         regs |-> [r \in Reg |-> 0],
         nth_instruction |-> VM_ADDR_RETURN_TO_HOST,
         nth_basic_block |-> 0,
         return_to_host |-> TRUE,
         cycle_counter |-> 0,
         gas_remaining |-> Some(G(0)),
         in_new_execution |-> FALSE])

\* InterpretedInstance::new
new(m) ==
    reset_memory(m,
        [heap |-> << >>, stack |-> << >>,
         regs |-> [r \in Reg |-> 0],
         nth_instruction |-> VM_ADDR_RETURN_TO_HOST,
         nth_basic_block |-> 0,
         return_to_host |-> TRUE,
         cycle_counter |-> 0,
         gas_remaining |-> IF IsSome(m.gas_metering) THEN Some(G(0)) ELSE None,
         in_new_execution |-> FALSE])

\* prepare_for_call, had it started every call without a budget from 0
prepare_for_call_resetting(m, s, export_index, config) ==
    LET nth_bb == get_export(m, export_index)
        nth_in == IF IsSome(nth_bb) THEN instruction_by_basic_block(m, Unwrap(nth_bb)) ELSE None
        gas == IF IsSome(m.gas_metering)
               THEN (IF IsSome(config.gas) THEN Some(Unwrap(config.gas)) ELSE Some(G(0)))
               ELSE None
    IN IF ~IsSome(nth_bb) \/ ~IsSome(nth_in) THEN Ret(s, "Panic", << >>)
       ELSE Ret([s EXCEPT !.return_to_host = FALSE,
                          !.regs = config.initial_regs,
                          !.nth_instruction = Unwrap(nth_in),
                          !.nth_basic_block = Unwrap(nth_bb),
                          !.gas_remaining = gas,
                          !.in_new_execution = TRUE],
                "Ok", <<EvPrepare(config.gas, s.gas_remaining, gas)>>)

\* InterpretedInstance::prepare_for_call; config is an ExecutionConfig
prepare_for_call(m, s, export_index, config) ==
    LET nth_bb == get_export(m, export_index)
        nth_in == IF IsSome(nth_bb) THEN instruction_by_basic_block(m, Unwrap(nth_bb)) ELSE None
        gas == IF IsSome(m.gas_metering)
               THEN (IF IsSome(config.gas) THEN Some(Unwrap(config.gas)) ELSE s.gas_remaining)
               ELSE None
    IN IF ~IsSome(nth_bb) \/ ~IsSome(nth_in) THEN Ret(s, "Panic", << >>)
       ELSE Ret([s EXCEPT !.return_to_host = FALSE,
                          !.regs = config.initial_regs,
                          !.nth_instruction = Unwrap(nth_in),
                          !.nth_basic_block = Unwrap(nth_bb),
                          !.gas_remaining = gas,
                          !.in_new_execution = TRUE],
                "Ok", <<EvPrepare(config.gas, s.gas_remaining, gas)>>)

\* on_start_new_basic_block, had it compared a copy of the balance and left
\* the counter as it was
on_start_new_basic_block_uncharged(m, s) ==
    IF IsSome(s.gas_remaining) THEN
        IF s.nth_basic_block < 0 \/ s.nth_basic_block >= Len(m.gas_cost_for_basic_block)
        THEN Ret(s, "Panic", << >>)
        ELSE
            LET gas_cost == G(m.gas_cost_for_basic_block[s.nth_basic_block + 1])
                diff == BigSub(Unwrap(s.gas_remaining), gas_cost)
                left == WrapI64(diff)
            IN IF ~InI64(diff) /\ overflow_checks THEN Ret(s, "Panic", << >>)
               ELSE Ret(s, IF BigLt0(left) THEN "OutOfGas" ELSE "Ok",
                        <<EvEnter(s.nth_basic_block, s.gas_remaining, s.gas_remaining)>>)
    ELSE Ret(s, "Ok", <<EvEnter(s.nth_basic_block, None, None)>>)

\* on_start_new_basic_block, had it tested the balance before the subtraction
on_start_new_basic_block_late(m, s) ==
    IF IsSome(s.gas_remaining) THEN
        IF s.nth_basic_block < 0 \/ s.nth_basic_block >= Len(m.gas_cost_for_basic_block)
        THEN Ret(s, "Panic", << >>)
        ELSE
            LET gas_cost == G(m.gas_cost_for_basic_block[s.nth_basic_block + 1])
                diff == BigSub(Unwrap(s.gas_remaining), gas_cost)
                left == WrapI64(diff)
            IN IF ~InI64(diff) /\ overflow_checks THEN Ret(s, "Panic", << >>)
               ELSE Ret([s EXCEPT !.gas_remaining = Some(left)],
                        IF BigLt0(Unwrap(s.gas_remaining)) THEN "OutOfGas" ELSE "Ok",
                        <<EvEnter(s.nth_basic_block, s.gas_remaining, Some(left))>>)
    ELSE Ret(s, "Ok", <<EvEnter(s.nth_basic_block, None, None)>>)

\* on_start_new_basic_block, had asynchronous metering put off the out-of-gas
\* report of a block entry
on_start_new_basic_block_async(m, s) ==
    IF IsSome(s.gas_remaining) THEN
        IF s.nth_basic_block < 0 \/ s.nth_basic_block >= Len(m.gas_cost_for_basic_block)
        THEN Ret(s, "Panic", << >>)
        ELSE
            LET gas_cost == G(m.gas_cost_for_basic_block[s.nth_basic_block + 1])
                diff == BigSub(Unwrap(s.gas_remaining), gas_cost)
                left == WrapI64(diff)
            IN IF ~InI64(diff) /\ overflow_checks THEN Ret(s, "Panic", << >>)
               ELSE Ret([s EXCEPT !.gas_remaining = Some(left)],
                        IF BigLt0(left) /\ m.gas_metering # Some("Async") THEN "OutOfGas" ELSE "Ok",
                        <<EvEnter(s.nth_basic_block, s.gas_remaining, Some(left))>>)
    ELSE Ret(s, "Ok", <<EvEnter(s.nth_basic_block, None, None)>>)

\* InterpretedInstance::on_start_new_basic_block.  `*gas_remaining -= gas_cost`
\* is an i64 subtraction: out of range it panics in a build with overflow
\* checks and wraps around in one without.
on_start_new_basic_block(m, s) ==
    IF IsSome(s.gas_remaining) THEN
        IF s.nth_basic_block < 0 \/ s.nth_basic_block >= Len(m.gas_cost_for_basic_block)
        THEN Ret(s, "Panic", << >>)
        ELSE
            LET gas_cost == G(m.gas_cost_for_basic_block[s.nth_basic_block + 1])
                diff == BigSub(Unwrap(s.gas_remaining), gas_cost)
                left == WrapI64(diff)
            IN IF ~InI64(diff) /\ overflow_checks THEN Ret(s, "Panic", << >>)
               ELSE Ret([s EXCEPT !.gas_remaining = Some(left)],
                        IF BigLt0(left) THEN "OutOfGas" ELSE "Ok",
                        <<EvEnter(s.nth_basic_block, s.gas_remaining, Some(left))>>)
    ELSE Ret(s, "Ok", <<EvEnter(s.nth_basic_block, None, None)>>)

\* check_gas, had it taken a balance of 0 for out of gas
check_gas_strict(s) ==
    Ret(s,
        IF IsSome(s.gas_remaining) /\ ~BigLt0(BigSub(G(0), Unwrap(s.gas_remaining)))
        THEN "OutOfGas" ELSE "Ok",
        <<EvCheckGas(s.gas_remaining)>>)

\* InterpretedInstance::check_gas
check_gas(s) ==
    Ret(s,
        IF IsSome(s.gas_remaining) /\ BigLt0(Unwrap(s.gas_remaining)) THEN "OutOfGas" ELSE "Ok",
        <<EvCheckGas(s.gas_remaining)>>)

----------------------------------------------------------------------------
(* InterpretedAccess: the handle a host callback gets *)

\* polkavm_common::utils::Gas: a u64 no larger than i64::MAX; Gas::MIN is 0
GasNew(u) == IF ~BigLt0(u) /\ BigLe(u, I64_MAX) THEN Some(u) ELSE None
GasMIN == G(0)

\* gas_remaining, had it handed out the counter as it is
access_gas_remaining_raw(s) == s.gas_remaining

\* InterpretedAccess::gas_remaining
access_gas_remaining(s) ==
    IF ~IsSome(s.gas_remaining) THEN None
    ELSE LET gas == GasNew(I64AsU64(Unwrap(s.gas_remaining)))
         IN Some(IF IsSome(gas) THEN Unwrap(gas) ELSE GasMIN)

\* consume_gas, had it saturated at -1 on every underflow below zero
consume_gas_saturating(s, gas) ==
    IF IsSome(s.gas_remaining) THEN
        LET diff == BigSub(Unwrap(s.gas_remaining), gas)
        IN [s EXCEPT !.gas_remaining = Some(IF BigLt0(diff) THEN G(-1) ELSE diff)]
    ELSE s

\* InterpretedAccess::consume_gas: i64::checked_sub_unsigned is None exactly
\* when the difference is not an i64
consume_gas(s, gas) ==
    IF IsSome(s.gas_remaining) THEN
        LET diff == BigSub(Unwrap(s.gas_remaining), gas)
        IN [s EXCEPT !.gas_remaining = Some(IF InI64(diff) THEN diff ELSE G(-1))]
    ELSE s

\* set_reg, had the write been lost
access_set_reg_lost(s, reg, value) == s

\* InterpretedAccess::set_reg
access_set_reg(s, reg, value) == [s EXCEPT !.regs[reg] = value]

\* InterpretedAccess::get_reg
access_get_reg(s, reg) == s.regs[reg]

\* InterpretedAccess::program_counter
program_counter(s) == Some(s.nth_instruction)

----------------------------------------------------------------------------
(* Host callbacks (InterpreterContext).  A context says which callbacks    *)
(* are installed; what an installed callback does when it is invoked is an *)
(* input of the step: cx joins the two.                                    *)

\* core::mem::size_of::<T>() of the types loads and stores are instantiated with
size_of(T) == CASE T \in {"u8", "i8"} -> 1 [] T \in {"u16", "i16"} -> 2 [] T = "u32" -> 4

\* LoadTy::from_slice: little-endian, the signed types sign-extended to 32 bits
from_slice(T, xs) ==
    CASE T = "u8" -> xs[1]
      [] T = "i8" -> IF xs[1] >= 128 THEN xs[1] - 256 ELSE xs[1]
      [] T = "u16" -> xs[1] + 256 * xs[2]
      [] T = "i16" -> IF xs[2] >= 128 THEN xs[1] + 256 * xs[2] - 65536 ELSE xs[1] + 256 * xs[2]
      [] T = "u32" -> Word(xs[3] + 256 * xs[4], xs[1] + 256 * xs[2])

\* into_bytes, had it laid the bytes out from the highest down
into_bytes_be(T, value) ==
    CASE T = "u8" -> <<value % 256>>
      [] T = "u16" -> <<(value \div 256) % 256, value % 256>>
      [] T = "u32" -> <<(value \div 16777216) % 256, (value \div 65536) % 256,
                        (value \div 256) % 256, value % 256>>

\* StoreTy::into_bytes: the value truncated to the type, little-endian
into_bytes(T, value) ==
    CASE T = "u8" -> <<value % 256>>
      [] T = "u16" -> <<value % 256, (value \div 256) % 256>>
      [] T = "u32" -> <<value % 256, (value \div 256) % 256,
                        (value \div 65536) % 256, (value \div 16777216) % 256>>

\* BackendAccess::read_memory_into_slice for a u32, as Caller::read_u32 uses it
read_u32_from(slice) == IF IsSome(slice) THEN Some(from_slice("u32", Unwrap(slice))) ELSE None
access_read_u32(m, s, address) == read_u32_from(get_memory_slice(m, s, address, 4))

\* write_memory from the slice on: out of range without one, else copy the bytes
write_memory_to(s, data, place) ==
    IF ~IsSome(place) THEN Ret(s, "OutOfRange", << >>)
    ELSE Ret(IF Unwrap(place).buffer = "heap"
             THEN [s EXCEPT !.heap = copy_from_slice(@, Unwrap(place).offset, data)]
             ELSE [s EXCEPT !.stack = copy_from_slice(@, Unwrap(place).offset, data)],
             "Ok", << >>)

\* write_memory, had it taken the read-only data for writable too (the bytes
\* then land nowhere)
write_memory_anywhere(m, s, address, data) ==
    IF IsSome(get_memory_slice(m, s, address, Len(data)))
       /\ ~IsSome(get_memory_slice_mut(m, s, address, Len(data)))
    THEN Ret(s, "Ok", << >>)
    ELSE write_memory_to(s, data, get_memory_slice_mut(m, s, address, Len(data)))

\* InterpretedAccess::write_memory: "OutOfRange" is Err("out of range write")
write_memory(m, s, address, data) ==
    write_memory_to(s, data, get_memory_slice_mut(m, s, address, Len(data)))

\* InterpretedAccess::read_memory_into_slice with a buffer of `length` bytes:
\* the bytes read, or None for Err("out of range read"); a length of 2^31 or
\* more (negative in the encoding) ends past every buffer
read_memory_into_slice(m, s, address, length) == get_memory_slice(m, s, address, length)

\* The host's data (DOOM_WAD of the tests), longer than any region.
Rom == [i \in 1..(HeapSize + 1) |-> 160 + i]

\* ext_output_video: `width * height * 4` in u32, the number of bytes of a
\* frame.  A build with overflow checks panics when a product does not fit
\* (None), a build without them keeps the low 32 bits.
times_four(area) ==
    IF overflow_checks /\ (area < 0 \/ area >= 1073741824) THEN None
    ELSE Some(Word(Hi16(area) * 4 + (Lo16(area) * 4) \div 65536, (Lo16(area) * 4) % 65536))
frame_length(product) ==
    IF overflow_checks /\ product[4] + product[5] + product[6] + product[7] # 0 THEN None
    ELSE times_four(WordOfBytes(product[0], product[1], product[2], product[3]))
video_length(width, height) == frame_length(Product(width, height))
\* ext_rom_read: DOOM_WAD.get(offset..offset + length), the sum taken in usize
\* (64 bits on the hosts of the tests, so it does not overflow); an offset or
\* a length of 2^31 or more ends past the data
rom_chunk(offset, length) ==
    IF 0 <= offset /\ offset <= Len(Rom) /\ 0 <= length /\ length <= Len(Rom)
    THEN slice_get(Rom, offset, offset + length)
    ELSE None

\* The callbacks ext_rom_read and ext_output_video of tests.rs, their three
\* arguments in A0, A1 and A2.  ext_rom_read(pointer, offset, length) fails if
\* its data has no such chunk, else it writes the chunk at the pointer and
\* fails if the write does.  ext_output_video(address, width, height) reads
\* width * height * 4 bytes at the address and fails if the read does.  w and
\* bytes are what the access gave.
host_write(imm, pointer, data, w) ==
    Ret(w.st, IF w.res = "Ok" THEN "Ok" ELSE "Trap",
        <<EvHostcall(imm), EvAccess("write", pointer, data, w.res = "Ok")>>)
host_read(s, imm, pointer, bytes) ==
    Ret(s, IF IsSome(bytes) THEN "Ok" ELSE "Trap",
        <<EvHostcall(imm),
          EvAccess("read", pointer, IF IsSome(bytes) THEN Unwrap(bytes) ELSE << >>, IsSome(bytes))>>)
ext_rom_read(m, s, imm, pointer, chunk) ==
    IF ~IsSome(chunk) THEN Ret(s, "Trap", <<EvHostcall(imm)>>)
    ELSE host_write(imm, pointer, Unwrap(chunk), write_memory(m, s, pointer, Unwrap(chunk)))
ext_output_video(m, s, imm, address, length) ==
    IF ~IsSome(length) THEN Ret(s, "Panic", <<EvHostcall(imm)>>)
    ELSE host_read(s, imm, address, read_memory_into_slice(m, s, address, Unwrap(length)))
host_access(m, s, imm, hc) ==
    IF Unwrap(hc.access) = "write"
    THEN ext_rom_read(m, s, imm, s.regs["A0"], rom_chunk(s.regs["A1"], s.regs["A2"]))
    ELSE ext_output_video(m, s, imm, s.regs["A0"], video_length(s.regs["A1"], s.regs["A2"]))

\* on_hostcall as the tests write it (tests.rs, consume_gas_in_host_function
\* and caller_split_works): read the gas left, read the u32 at hc.read (and
\* fail if that is out of range), consume hc.consume, put the returned value
\* in A0, succeed or fail.
hostcall_body(s, imm, hc, value) ==
    LET s1 == IF IsSome(hc.consume) THEN consume_gas(s, Unwrap(hc.consume)) ELSE s
        s2 == IF IsSome(hc.a0) THEN access_set_reg(s1, "A0", Unwrap(hc.a0)) ELSE s1
    IN IF IsSome(hc.read) /\ ~IsSome(value)
       THEN Ret(s, "Trap", <<EvHostcall(imm)>>)
       ELSE Ret(s2, IF hc.ok THEN "Ok" ELSE "Trap",
                <<EvHostcall(imm), EvGasRemaining(s.gas_remaining, access_gas_remaining(s))>>
                \o (IF IsSome(hc.read) THEN <<EvReadMemory(Unwrap(hc.read), Unwrap(value))>>
                    ELSE << >>)
                \o (IF IsSome(hc.consume)
                    THEN <<EvConsumeGas(Unwrap(hc.consume), s.gas_remaining, s1.gas_remaining)>>
                    ELSE << >>))
on_hostcall(m, s, imm, hc) ==
    IF IsSome(hc.access)
    THEN host_access(m, s, imm, hc)
    ELSE hostcall_body(s, imm, hc,
                       IF IsSome(hc.read) THEN access_read_u32(m, s, Unwrap(hc.read)) ELSE None)

----------------------------------------------------------------------------
(* Visitor: the instruction handlers *)

\* set, had it asked the observer before writing the register
set_asking_first(s, cx, dst, value) ==
    IF cx.on_set_reg /\ ~cx.set_reg_ok THEN Ret(s, "Trap", <<EvSetReg(dst, value)>>)
    ELSE Ret([s EXCEPT !.regs[dst] = value], "Ok",
             IF cx.on_set_reg THEN <<EvSetReg(dst, value)>> ELSE << >>)

\* Visitor::set
set(s, cx, dst, value) ==
    LET s1 == [s EXCEPT !.regs[dst] = value]
    IN IF cx.on_set_reg
       THEN Ret(s1, IF cx.set_reg_ok THEN "Ok" ELSE "Trap", <<EvSetReg(dst, value)>>)
       ELSE Ret(s1, "Ok", << >>)

\* Visitor::set3; result is callback(s1, s2) of the operands read by Visitor::get
set3(s, cx, dst, result) ==
    LET r == set(s, cx, dst, result) IN Then(r, Advance(r.st))

\* The handlers that pass two registers, a register and an immediate, and an
\* immediate and a register to set3.
RegRegOps ==
    {"set_less_than_unsigned", "set_less_than_signed", "shift_logical_right",
     "shift_arithmetic_right", "shift_logical_left", "xor", "and", "or", "sub", "mul",
     "mul_upper_signed_signed", "mul_upper_unsigned_unsigned", "mul_upper_signed_unsigned",
     "div_unsigned", "div_signed", "rem_unsigned", "rem_signed",
     "cmov_if_zero", "cmov_if_not_zero"}
RegImmOps ==
    {"negate_and_add_imm", "mul_imm", "mul_upper_signed_signed_imm",
     "mul_upper_unsigned_unsigned_imm", "set_less_than_unsigned_imm",
     "set_greater_than_unsigned_imm", "set_less_than_signed_imm",
     "set_greater_than_signed_imm", "shift_logical_right_imm",
     "shift_arithmetic_right_imm", "shift_logical_left_imm", "or_imm", "and_imm", "xor_imm"}
ImmRegOps ==
    {"shift_logical_right_imm_alt", "shift_arithmetic_right_imm_alt",
     "shift_logical_left_imm_alt"}
Set3Ops == RegRegOps \cup RegImmOps \cup ImmRegOps
\* Visitor::get of the first and of the second operand the handler passes
get_s1(s, i) == IF i.op \in ImmRegOps THEN i.imm ELSE s.regs[i.s1]
get_s2(s, i) == IF i.op \in RegImmOps THEN i.imm ELSE s.regs[i.s2]

\* u32::from(bool)
FromBool(b) == IF b THEN 1 ELSE 0
\* (s1 as i32) >> s2, had the amount been masked in every build
i32_shr_masked(a, n) == Some(i32_wrapping_shr(a, n))
\* (s1 as i32) >> s2: an amount of 32 or more is an overflow, which panics in
\* a build with overflow checks and is masked to five bits in one without
i32_shr(a, n) ==
    IF overflow_checks /\ ~(0 <= n /\ n < 32) THEN None ELSE Some(i32_wrapping_shr(a, n))

\* Visitor::div_unsigned, div_signed, rem_unsigned, rem_signed: the callbacks
DivRemOps == {"div_unsigned", "div_signed", "rem_unsigned", "rem_signed"}
\* the same, had they used the operators / and % of the language, which
\* panic on a zero divisor and on i32::MIN / -1
division_native(op, s1, s2) ==
    IF s2 = 0 \/ (op \in {"div_signed", "rem_signed"} /\ s1 = I32_MIN /\ s2 = -1) THEN None
    ELSE CASE op = "div_unsigned" -> Some(divu(s1, s2))
           [] op = "div_signed" -> Some(div(s1, s2))
           [] op = "rem_unsigned" -> Some(remu(s1, s2))
           [] op = "rem_signed" -> Some(rem(s1, s2))
division(op, s1, s2) ==
    CASE op = "div_unsigned" -> Some(divu(s1, s2))
      [] op = "div_signed" -> Some(div(s1, s2))
      [] op = "rem_unsigned" -> Some(remu(s1, s2))
      [] op = "rem_signed" -> Some(rem(s1, s2))

\* The callback each handler passes to set3, applied to the operands; None
\* when it panics.
callback(op, s1, s2) ==
    CASE op \in {"set_less_than_unsigned", "set_less_than_unsigned_imm"} ->
            Some(FromBool(LtU(s1, s2)))
      [] op \in {"set_less_than_signed", "set_less_than_signed_imm"} -> Some(FromBool(s1 < s2))
      [] op = "set_greater_than_unsigned_imm" -> Some(FromBool(LtU(s2, s1)))
      [] op = "set_greater_than_signed_imm" -> Some(FromBool(s1 > s2))
      [] op \in {"shift_logical_right", "shift_logical_right_imm",
                 "shift_logical_right_imm_alt"} -> Some(wrapping_shr(s1, s2))
      [] op = "shift_arithmetic_right" -> Some(i32_wrapping_shr(s1, s2))
      [] op \in {"shift_arithmetic_right_imm", "shift_arithmetic_right_imm_alt"} ->
            i32_shr(s1, s2)
      [] op \in {"shift_logical_left", "shift_logical_left_imm",
                 "shift_logical_left_imm_alt"} -> Some(wrapping_shl(s1, s2))
      [] op \in {"xor", "xor_imm"} -> Some(BitXor(s1, s2))
      [] op \in {"and", "and_imm"} -> Some(BitAnd(s1, s2))
      [] op \in {"or", "or_imm"} -> Some(BitOr(s1, s2))
      [] op = "sub" -> Some(wrapping_sub(s1, s2))
      [] op = "negate_and_add_imm" -> Some(wrapping_sub(s2, s1))
      [] op \in {"mul", "mul_imm"} -> Some(wrapping_mul(s1, s2))
      [] op \in {"mul_upper_signed_signed", "mul_upper_signed_signed_imm"} -> Some(mulh(s1, s2))
      [] op \in {"mul_upper_unsigned_unsigned", "mul_upper_unsigned_unsigned_imm"} ->
            Some(mulhu(s1, s2))
      [] op = "mul_upper_signed_unsigned" -> Some(mulhsu(s1, s2))
      [] op \in DivRemOps -> division(op, s1, s2)
      [] op = "cmov_if_zero" -> Some(IF s2 = 0 THEN s1 ELSE 0)
      [] op = "cmov_if_not_zero" -> Some(IF s2 # 0 THEN s1 ELSE 0)

\* Visitor::set3 with the result of the callback
set3_callback(s, cx, dst, result) ==
    IF IsSome(result) THEN set3(s, cx, dst, Unwrap(result)) ELSE Ret(s, "Panic", << >>)

\* branch, had it entered the next block without the hook when not taken
branch_taken_only_hook(m, s, taken, target) ==
    IF taken THEN
        LET n == instruction_by_basic_block(m, target)
        IN IF ~IsSome(n) THEN Ret(s, "Panic", << >>)
           ELSE on_start_new_basic_block(m,
                    [s EXCEPT !.nth_instruction = Unwrap(n), !.nth_basic_block = target])
    ELSE Ret([s EXCEPT !.nth_instruction = @ + 1, !.nth_basic_block = @ + 1], "Ok", << >>)

\* Visitor::branch; taken is callback(s1, s2) of the operands read by Visitor::get
branch(m, s, taken, target) ==
    IF taken THEN
        LET n == instruction_by_basic_block(m, target)
        IN IF ~IsSome(n) THEN Ret(s, "Panic", << >>)
           ELSE on_start_new_basic_block(m,
                    [s EXCEPT !.nth_instruction = Unwrap(n), !.nth_basic_block = target])
    ELSE on_start_new_basic_block(m,
             [s EXCEPT !.nth_instruction = @ + 1, !.nth_basic_block = @ + 1])

\* get_return_address, had it returned the jump-table index as the address
get_return_address_unscaled(m, s) ==
    jump_table_index_by_basic_block(m, s.nth_basic_block + 1)

\* Visitor::get_return_address
get_return_address(m, s) ==
    LET j == jump_table_index_by_basic_block(m, s.nth_basic_block + 1)
    IN IF IsSome(j) THEN Some(Unwrap(j) * VM_CODE_ADDRESS_ALIGNMENT) ELSE None

\* Visitor::jump
jump(m, s, target) ==
    LET n == instruction_by_basic_block(m, target)
    IN IF ~IsSome(n) THEN Ret(s, "Panic", << >>)
       ELSE on_start_new_basic_block(m,
                [s EXCEPT !.nth_basic_block = target, !.nth_instruction = Unwrap(n)])

\* dynamic_jump, had it looked address 0 up in the jump table like any other
dynamic_jump_zero_ok(m, s, cx, call_ra, base, offset) ==
    LET target == wrapping_add(s.regs[base], offset)
        bb == basic_block_by_jump_table_index(m, DivU(target, VM_CODE_ADDRESS_ALIGNMENT))
        n == IF IsSome(bb) THEN instruction_by_basic_block(m, Unwrap(bb)) ELSE None
        r == IF IsSome(call_ra)
             THEN set(s, cx, Unwrap(call_ra)[1], Unwrap(call_ra)[2])
             ELSE Ret(s, "Ok", << >>)
        t == r.st
    IN Then(r,
            IF target = VM_ADDR_RETURN_TO_HOST
            THEN Ret([t EXCEPT !.return_to_host = TRUE], "Ok", << >>)
            ELSE IF ModU(target, VM_CODE_ADDRESS_ALIGNMENT) # 0 THEN Ret(t, "Trap", << >>)
            ELSE IF ~IsSome(bb) THEN Ret(t, "Trap", << >>)
            ELSE IF ~IsSome(n) THEN Ret(t, "Panic", << >>)
            ELSE on_start_new_basic_block(m,
                     [t EXCEPT !.nth_basic_block = Unwrap(bb),
                               !.nth_instruction = Unwrap(n)]))

\* dynamic_jump, had it taken the target itself for the jump-table index
dynamic_jump_unscaled(m, s, cx, call_ra, base, offset) ==
    LET target == wrapping_add(s.regs[base], offset)
        bb == basic_block_by_jump_table_index(m, target)
        n == IF IsSome(bb) THEN instruction_by_basic_block(m, Unwrap(bb)) ELSE None
        r == IF IsSome(call_ra)
             THEN set(s, cx, Unwrap(call_ra)[1], Unwrap(call_ra)[2])
             ELSE Ret(s, "Ok", << >>)
        t == r.st
    IN Then(r,
            IF target = VM_ADDR_RETURN_TO_HOST
            THEN Ret([t EXCEPT !.return_to_host = TRUE], "Ok", << >>)
            ELSE IF target = 0 THEN Ret(t, "Trap", << >>)
            ELSE IF ModU(target, VM_CODE_ADDRESS_ALIGNMENT) # 0 THEN Ret(t, "Trap", << >>)
            ELSE IF ~IsSome(bb) THEN Ret(t, "Trap", << >>)
            ELSE IF ~IsSome(n) THEN Ret(t, "Panic", << >>)
            ELSE on_start_new_basic_block(m,
                     [t EXCEPT !.nth_basic_block = Unwrap(bb),
                               !.nth_instruction = Unwrap(n)]))

\* dynamic_jump, had a return to the host moved on to the next instruction
dynamic_jump_past_return(m, s, cx, call_ra, base, offset) ==
    LET target == wrapping_add(s.regs[base], offset)
        bb == basic_block_by_jump_table_index(m, DivU(target, VM_CODE_ADDRESS_ALIGNMENT))
        n == IF IsSome(bb) THEN instruction_by_basic_block(m, Unwrap(bb)) ELSE None
        r == IF IsSome(call_ra)
             THEN set(s, cx, Unwrap(call_ra)[1], Unwrap(call_ra)[2])
             ELSE Ret(s, "Ok", << >>)
        t == r.st
    IN Then(r,
            IF target = VM_ADDR_RETURN_TO_HOST
            THEN Ret([t EXCEPT !.return_to_host = TRUE, !.nth_instruction = @ + 1], "Ok", << >>)
            ELSE IF target = 0 THEN Ret(t, "Trap", << >>)
            ELSE IF ModU(target, VM_CODE_ADDRESS_ALIGNMENT) # 0 THEN Ret(t, "Trap", << >>)
            ELSE IF ~IsSome(bb) THEN Ret(t, "Trap", << >>)
            ELSE IF ~IsSome(n) THEN Ret(t, "Panic", << >>)
            ELSE on_start_new_basic_block(m,
                     [t EXCEPT !.nth_basic_block = Unwrap(bb),
                               !.nth_instruction = Unwrap(n)]))

\* Visitor::dynamic_jump; call is None or Some(<<ra, return_address>>)
dynamic_jump(m, s, cx, call_ra, base, offset) ==
    LET target == wrapping_add(s.regs[base], offset)
        bb == basic_block_by_jump_table_index(m, DivU(target, VM_CODE_ADDRESS_ALIGNMENT))
        n == IF IsSome(bb) THEN instruction_by_basic_block(m, Unwrap(bb)) ELSE None
        r == IF IsSome(call_ra)
             THEN set(s, cx, Unwrap(call_ra)[1], Unwrap(call_ra)[2])
             ELSE Ret(s, "Ok", << >>)
        t == r.st
    IN Then(r,
            IF target = VM_ADDR_RETURN_TO_HOST
            THEN Ret([t EXCEPT !.return_to_host = TRUE], "Ok", << >>)
            ELSE IF target = 0 THEN Ret(t, "Trap", << >>)
            ELSE IF ModU(target, VM_CODE_ADDRESS_ALIGNMENT) # 0 THEN Ret(t, "Trap", << >>)
            ELSE IF ~IsSome(bb) THEN Ret(t, "Trap", << >>)
            ELSE IF ~IsSome(n) THEN Ret(t, "Panic", << >>)
            ELSE on_start_new_basic_block(m,
                     [t EXCEPT !.nth_basic_block = Unwrap(bb),
                               !.nth_instruction = Unwrap(n)]))

\* base.map_or(0, |base| regs[base]).wrapping_add(offset)
effective_address(s, base, offset) ==
    wrapping_add(IF IsSome(base) THEN s.regs[Unwrap(base)] ELSE 0, offset)

\* Visitor::load from the slice on: trap without one, else set dst and move on
load_from(s, cx, T, dst, slice) ==
    IF ~IsSome(slice) THEN Ret(s, "Trap", << >>)
    ELSE set3(s, cx, dst, from_slice(T, Unwrap(slice)))

\* Visitor::load; base is None or Some(register)
load(m, s, cx, T, dst, base, offset) ==
    load_from(s, cx, T, dst,
              get_memory_slice(m, s, effective_address(s, base, offset), size_of(T)))

\* the on_store observer, if installed, then the move to the next instruction
notify_store(s, cx, address, bytes) ==
    IF cx.on_store
    THEN Then(Ret(s, IF cx.store_ok THEN "Ok" ELSE "Trap", <<EvStore(address, bytes)>>), Advance(s))
    ELSE Advance(s)

\* the same, had the observer been asked before the bytes are copied
store_to_asking_first(s, cx, address, place, bytes) ==
    IF ~IsSome(place) THEN Ret(s, "Trap", << >>)
    ELSE IF cx.on_store /\ ~cx.store_ok THEN Ret(s, "Trap", <<EvStore(address, bytes)>>)
    ELSE notify_store(IF Unwrap(place).buffer = "heap"
                      THEN [s EXCEPT !.heap = copy_from_slice(@, Unwrap(place).offset, bytes)]
                      ELSE [s EXCEPT !.stack = copy_from_slice(@, Unwrap(place).offset, bytes)],
                      cx, address, bytes)

\* Visitor::store from the slice on: trap without one, else copy the bytes,
\* notify the observer and move on
store_to(s, cx, address, place, bytes) ==
    IF ~IsSome(place) THEN Ret(s, "Trap", << >>)
    ELSE notify_store(IF Unwrap(place).buffer = "heap"
                      THEN [s EXCEPT !.heap = copy_from_slice(@, Unwrap(place).offset, bytes)]
                      ELSE [s EXCEPT !.stack = copy_from_slice(@, Unwrap(place).offset, bytes)],
                      cx, address, bytes)

\* Visitor::store; value is the source register's or the immediate
store(m, s, cx, T, value, base, offset) ==
    store_to(s, cx, effective_address(s, base, offset),
             get_memory_slice_mut(m, s, effective_address(s, base, offset), size_of(T)),
             into_bytes(T, value))

\* the load and the store instructions
LoadOps == {"load_u8", "load_i8", "load_u16", "load_i16", "load_u32",
            "load_indirect_u8", "load_indirect_i8", "load_indirect_u16",
            "load_indirect_i16", "load_indirect_u32"}
StoreOps == {"store_u8", "store_u16", "store_u32",
                 "store_indirect_u8", "store_indirect_u16", "store_indirect_u32",
                 "store_imm_u8", "store_imm_u16", "store_imm_u32",
                 "store_imm_indirect_u8", "store_imm_indirect_u16", "store_imm_indirect_u32"}

\* What the load and store handlers of the visitor pass on: the type, the
\* base register if the instruction has one, the value of a store.
LoadTyOf(op) ==
    CASE op \in {"load_u8", "load_indirect_u8"} -> "u8"
      [] op \in {"load_i8", "load_indirect_i8"} -> "i8"
      [] op \in {"load_u16", "load_indirect_u16"} -> "u16"
      [] op \in {"load_i16", "load_indirect_i16"} -> "i16"
      [] op \in {"load_u32", "load_indirect_u32"} -> "u32"
StoreTyOf(op) ==
    CASE op \in {"store_u8", "store_indirect_u8", "store_imm_u8", "store_imm_indirect_u8"} -> "u8"
      [] op \in {"store_u16", "store_indirect_u16", "store_imm_u16", "store_imm_indirect_u16"} -> "u16"
      [] op \in {"store_u32", "store_indirect_u32", "store_imm_u32", "store_imm_indirect_u32"} -> "u32"
IndirectOps == {"load_indirect_u8", "load_indirect_i8", "load_indirect_u16",
                "load_indirect_i16", "load_indirect_u32",
                "store_indirect_u8", "store_indirect_u16", "store_indirect_u32",
                "store_imm_indirect_u8", "store_imm_indirect_u16", "store_imm_indirect_u32"}
ImmediateStores == {"store_imm_u8", "store_imm_u16", "store_imm_u32",
                    "store_imm_indirect_u8", "store_imm_indirect_u16", "store_imm_indirect_u32"}
BaseOf(i) == IF i.op \in IndirectOps THEN Some(i.s1) ELSE None
StoreValueOf(s, i) == IF i.op \in ImmediateStores THEN i.value ELSE s.regs[i.s2]

\* fallthrough, had it moved to the next instruction without moving to the next block
fallthrough_same_block(m, s) ==
    on_start_new_basic_block(m, [s EXCEPT !.nth_instruction = @ + 1])

\* Visitor::fallthrough
fallthrough(m, s) ==
    on_start_new_basic_block(m,
        [s EXCEPT !.nth_instruction = @ + 1, !.nth_basic_block = @ + 1])

\* ecalli, had it left out the gas check after the callback
ecalli_unchecked(m, s, cx, imm) ==
    IF cx.on_hostcall
    THEN LET r == on_hostcall(m, s, imm, cx.hc) IN Then(r, Advance(r.st))
    ELSE Ret(s, "Trap", << >>)

\* ecalli, had it checked the gas before moving on
ecalli_check_first(m, s, cx, imm) ==
    IF cx.on_hostcall
    THEN LET r == on_hostcall(m, s, imm, cx.hc)
         IN Then(r, Then(check_gas(r.st), Advance(r.st)))
    ELSE Ret(s, "Trap", << >>)

\* Visitor::ecalli
ecalli(m, s, cx, imm) ==
    IF cx.on_hostcall
    THEN LET r == on_hostcall(m, s, imm, cx.hc)
         IN Then(r, check_gas([r.st EXCEPT !.nth_instruction = @ + 1]))
    ELSE Ret(s, "Trap", << >>)

\* Visitor::call
call(m, s, cx, ra, target) ==
    LET return_address == get_return_address(m, s)
    IN IF ~IsSome(return_address) THEN Ret(s, "Panic", << >>)
       ELSE LET r == set(s, cx, ra, Unwrap(return_address)) IN Then(r, jump(m, r.st, target))

\* Visitor::call_indirect
call_indirect(m, s, cx, ra, base, offset) ==
    LET return_address == get_return_address(m, s)
    IN IF ~IsSome(return_address) THEN Ret(s, "Panic", << >>)
       ELSE dynamic_jump(m, s, cx, Some(<<ra, Unwrap(return_address)>>), base, offset)

\* the comparison and arithmetic callbacks the handlers pass on
Eq(a, b) == a = b
NotEq(a, b) == a # b

\* the callback each branch handler passes to Visitor::branch, applied to
\* the operands
compare(op, s1, s2) ==
    CASE op \in {"branch_less_unsigned", "branch_less_unsigned_imm"} -> LtU(s1, s2)
      [] op \in {"branch_less_signed", "branch_less_signed_imm"} -> s1 < s2
      [] op \in {"branch_eq", "branch_eq_imm"} -> Eq(s1, s2)
      [] op \in {"branch_not_eq", "branch_not_eq_imm"} -> NotEq(s1, s2)
      [] op \in {"branch_greater_or_equal_unsigned",
                 "branch_greater_or_equal_unsigned_imm"} -> ~LtU(s1, s2)
      [] op \in {"branch_greater_or_equal_signed",
                 "branch_greater_or_equal_signed_imm"} -> s1 >= s2
      [] op = "branch_less_or_equal_unsigned_imm" -> ~LtU(s2, s1)
      [] op = "branch_less_or_equal_signed_imm" -> s1 <= s2
      [] op = "branch_greater_unsigned_imm" -> LtU(s2, s1)
      [] op = "branch_greater_signed_imm" -> s1 > s2
\* Visitor::branch: self.get(s2), a register or an immediate
branch_s2(s, i) == IF i.op \in BranchImmOps THEN i.imm ELSE s.regs[i.s2]

\* Instruction::visit with the InstructionVisitor implementation of Visitor
visit(m, s, cx, i) ==
    CASE i.op = "trap" -> Ret(s, "Trap", << >>)
      [] i.op = "fallthrough" -> fallthrough(m, s)
      [] i.op = "ecalli" -> ecalli(m, s, cx, i.imm)
      [] i.op = "add" -> set3(s, cx, i.d, wrapping_add(s.regs[i.s1], s.regs[i.s2]))
      [] i.op = "add_imm" -> set3(s, cx, i.d, wrapping_add(s.regs[i.s1], i.imm))
      [] i.op = "load_imm" ->
            LET r == set(s, cx, i.d, i.imm) IN Then(r, Advance(r.st))
      [] i.op = "move_reg" ->
            LET r == set(s, cx, i.d, s.regs[i.s1]) IN Then(r, Advance(r.st))
      [] i.op \in BranchOps ->
            branch(m, s, compare(i.op, s.regs[i.s1], branch_s2(s, i)), i.target)
      [] i.op = "jump" -> jump(m, s, i.target)
      [] i.op = "jump_indirect" -> dynamic_jump(m, s, cx, None, i.s1, i.imm)
      [] i.op = "call" -> call(m, s, cx, i.d, i.target)
      [] i.op = "call_indirect" -> call_indirect(m, s, cx, i.d, i.s1, i.imm)
      [] i.op \in Set3Ops ->
            set3_callback(s, cx, i.d, callback(i.op, get_s1(s, i), get_s2(s, i)))
      [] i.op \in StoreOps ->
            store(m, s, cx, StoreTyOf(i.op), StoreValueOf(s, i), BaseOf(i), i.imm)
      [] i.op \in LoadOps -> load(m, s, cx, LoadTyOf(i.op), i.d, BaseOf(i), i.imm)

----------------------------------------------------------------------------
(* The execution driver *)

\* the start of run and step_once, had the flag been cleared only after a
\* charge that succeeded
start_execution_flag_after_charge(m, s) ==
    IF s.in_new_execution
    THEN Then(on_start_new_basic_block(m, s),
              Ret([on_start_new_basic_block(m, s).st EXCEPT !.in_new_execution = FALSE],
                  "Ok", << >>))
    ELSE Ret(s, "Ok", << >>)
\* the part run and step_once share: charge the entry block on a new execution
start_execution(m, s) ==
    IF s.in_new_execution
    THEN on_start_new_basic_block(m, [s EXCEPT !.in_new_execution = FALSE])
    ELSE Ret(s, "Ok", << >>)

\* the same, had a fetch past the end ended the execution as a return to the
\* host does
fetch_and_visit_returning(m, s, cx) ==
    LET t == [s EXCEPT !.cycle_counter = @ + 1]
        instruction == instructions_get(m, t.nth_instruction)
    IN IF ~IsSome(instruction) THEN Ret([t EXCEPT !.return_to_host = TRUE], "Ok", << >>)
       ELSE LET r == visit(m, t, cx, Unwrap(instruction))
            IN Ret(r.st, r.res, <<EvDispatch(t.nth_instruction, Unwrap(instruction).op)>> \o r.log)

\* the same, had the cycle been counted only once an instruction was fetched
fetch_and_visit_counting_fetched(m, s, cx) ==
    LET instruction == instructions_get(m, s.nth_instruction)
        t == [s EXCEPT !.cycle_counter = @ + 1]
    IN IF ~IsSome(instruction) THEN Ret(s, "Trap", << >>)
       ELSE LET r == visit(m, t, cx, Unwrap(instruction))
            IN Ret(r.st, r.res, <<EvDispatch(t.nth_instruction, Unwrap(instruction).op)>> \o r.log)

\* count the cycle, fetch, dispatch
fetch_and_visit(m, s, cx) ==
    LET t == [s EXCEPT !.cycle_counter = @ + 1]
        instruction == instructions_get(m, t.nth_instruction)
    IN IF ~IsSome(instruction) THEN Ret(t, "Trap", << >>)
       ELSE LET r == visit(m, t, cx, Unwrap(instruction))
            IN Ret(r.st, r.res, <<EvDispatch(t.nth_instruction, Unwrap(instruction).op)>> \o r.log)

\* step_once, had it left the charge for the entry block to run
step_once_without_entry(m, s, cx) ==
    fetch_and_visit(m, [s EXCEPT !.in_new_execution = FALSE], cx)

\* InterpretedInstance::step_once
step_once(m, s, cx) ==
    LET r == start_execution(m, s) IN Then(r, fetch_and_visit(m, r.st, cx))

\* The loop of InterpretedInstance::run.  The loop has no bound of its own;
\* fuel is the number of turns the host waits for, and "Running" says that
\* the loop was still going when they were used up.
RECURSIVE run_loop(_, _, _, _)
run_loop(m, s, cx, fuel) ==
    IF fuel = 0 THEN Ret(s, "Running", << >>)
    ELSE LET r == fetch_and_visit(m, s, cx)
         IN IF r.res = "Ok" /\ ~r.st.return_to_host
            THEN LET r2 == run_loop(m, r.st, cx, fuel - 1)
                 IN Ret(r2.st, r2.res, r.log \o r2.log)
            ELSE r

\* InterpretedInstance::run
run(m, s, cx, fuel) ==
    LET r == start_execution(m, s) IN Then(r, run_loop(m, r.st, cx, fuel))

\* InterpretedInstance::call, after prepare_for_call returned p: run, then
\* reset_memory if the configuration asks for it
call_run(m, p, ctx, fuel) == Then(p, run(m, p.st, ctx, fuel))
\* call, had it returned a failure of run at once (`self.run(ctx)?`) and reset
\* the memory after a success only
call_exit_on_success(m, config, result) ==
    IF result.res # "Ok" THEN result
    ELSE Ret(IF config.reset_memory_after_execution
             THEN reset_memory(m, result.st) ELSE result.st,
             result.res, result.log)
call_exit(m, config, result) ==
    IF result.res \in {"Panic", "Running"} THEN result
    ELSE Ret(IF config.reset_memory_after_execution
             THEN reset_memory(m, result.st) ELSE result.st,
             result.res, result.log)

\* InterpretedInstance::call; hc is what the on_hostcall it is given does
InterpretedInstance_call(m, s, export_index, hc, config, fuel) ==
    call_exit(m, config,
        call_run(m, prepare_for_call(m, s, export_index, config),
                 [on_hostcall |-> TRUE, on_set_reg |-> FALSE, on_store |-> FALSE, hc |-> hc,
                  set_reg_ok |-> TRUE, store_ok |-> TRUE],
                 fuel))

----------------------------------------------------------------------------
(* Inputs and bounds *)

\* largest gas budget of a call, largest small amount a callback consumes
MaxGas == 4
MaxConsume == 3
\* how many calls the host of basic_gas_metering keeps the outcome of (the
\* test makes five on one instance)
MaxCalls == 5
\* cycle_counter and gas_remaining have no bound in the code.  The host leaves
\* an instance alone (it starts no run, step_once or call) once cycle_counter
\* has reached MaxCycles, and it starts nothing that can lower the balance
\* once the balance is more than MaxDebt below 0 (or below i64::MAX + 1,
\* after a wrap-around).
MaxCycles == 7
MaxDebt == 2
\* the same limit for the programs whose entries are one short block
FewCycles == 4
\* The loop of run has no bound either: the turns the host waits for one run
\* of a program that can loop; a run that takes more never returns.
MaxTurns == 12

RegsWith(ra, a0, s0, s1) ==
    [r \in Reg |-> CASE r = "RA" -> ra [] r = "A0" -> a0 [] r = "S0" -> s0
                     [] r = "S1" -> s1 [] OTHER -> 0]

\* How the host enters a module: the export it calls and the registers it
\* passes.  RA always holds the return-to-host address.  For FlowProgram A0
\* picks the branch of @0, S1 the dynamic jump of @3 (to the host, to @5, to
\* @6, to address 0, to a misaligned address, to an address that is not in
\* the jump table) and S0 the indirect call of @6, which adds 4 to it (to the
\* host, to @7, to address 0 by wrapping around, to a misaligned address, to
\* an address that is not in the jump table).
\* For MemProgram: the values stored (0x12345680 and 0xfedc8a18: one has the
\* sign bit of its low byte set, the other that of its low half) and the
\* addresses, as <<store address, load address>>: the same address at and
\* around every region boundary, and a good store address with a load address
\* that differs.
MemValues == {305419904, -19101160}
MemAddresses(m) ==
    {ro_data_range(m).start - 1, ro_data_range(m).start, ro_data_range(m).end - 1,
     heap_range(m).start, heap_range(m).end - 2, heap_range(m).end - 1,
     stack_range(m).start, stack_range(m).end - 1, stack_range(m).end, -1}
\* Where and how much the host reads and writes: around every edge of the
\* three regions; nothing, a byte, a whole stack, a whole heap, more than either
AccessAddresses(m) ==
    {0, ro_data_range(m).start - 1, ro_data_range(m).start, ro_data_range(m).end - 1,
     heap_range(m).start, heap_range(m).end - 1,
     stack_range(m).start, stack_range(m).end - 1, stack_range(m).end, -1}
AccessLengths(m) == {0, 1, m.stack_size, m.heap_size, m.heap_size + 1}
\* For AccessProgram: the second and third argument of the host call, (offset,
\* length) to ext_rom_read and (width, height) to ext_output_video.  As chunks:
\* one byte, a stack and a heap full, chunks that end at and past the end of
\* the data.  As frames: 0, 4 and more bytes, and sizes whose product
\* overflows (2^16 * 2^16 = 2^32, (2^30 + 1) * 4 = 2^32 + 4).  With the
\* sizes of the regions here a frame of 4 bytes is the heap.
AccessArguments(m) ==
    {<<1, 1>>, <<0, m.stack_size>>, <<0, m.heap_size>>, <<1, m.heap_size>>,
     <<65536, 65536>>, <<1073741825, 1>>}
\* and the first: a pointer into each region, at and past its end, and none
AccessPointers(m) ==
    {ro_data_range(m).start, heap_range(m).start, heap_range(m).end - 1,
     stack_range(m).start, stack_range(m).end, -1}
MemAddressPairs(m) ==
    {<<a, a>> : a \in MemAddresses(m)}
    \cup {<<heap_range(m).start, a>> : a \in MemAddresses(m)}
\* For BasicTestProgram: the arguments (a, b) of main; (1, 10) in the tests.
MainArguments == {<<1, 10>>, <<-1, 2>>, <<2147483647, 1>>}
\* For an ArithProgram: the operands, in registers A0 and A1 and as the
\* immediate: small numbers, shift amounts at and past the word size, negative
\* numbers, i32::MIN.  The destination A2 starts at 9.  Loads and stores
\* address the heap from its first byte on, A0 being the offset.
ArithValues == {0, 1, 7, 31, 32, -1, -7, I32_MIN}
HeapStart == VM_ADDR_USER_MEMORY + RoDataSize
NonControlOps ==
    Set3Ops \cup {"add", "add_imm", "load_imm", "move_reg"} \cup LoadOps \cup StoreOps
ArithInstructions ==
    {asm_reg_reg(op, "A2", "A0", "A1") : op \in RegRegOps}
    \cup {asm_reg_imm(op, "A2", "A0", v) : op \in RegImmOps, v \in ArithValues}
    \cup {asm_imm_reg(op, "A2", "A1", v) : op \in ImmRegOps, v \in ArithValues}
    \cup {asm_add("A2", "A0", "A1"), asm_move_reg("A2", "A0")}
    \cup {asm_add_imm("A2", "A0", v) : v \in ArithValues}
    \cup {asm_load_imm("A2", v) : v \in ArithValues}
    \cup {asm_load_indirect_u8("A2", "A0", HeapStart), asm_load_indirect_i8("A2", "A0", HeapStart),
          asm_load_indirect_u16("A2", "A0", HeapStart),
          asm_load_indirect_i16("A2", "A0", HeapStart),
          asm_load_indirect_u32("A2", "A0", HeapStart), asm_load_u32("A2", HeapStart),
          asm_store_indirect_u8("A1", "A0", HeapStart),
          asm_store_indirect_u16("A1", "A0", HeapStart),
          asm_store_indirect_u32("A1", "A0", HeapStart), asm_store_imm_u32(7, HeapStart)}
IsArithProgram(m) ==
    /\ Len(m.instructions) = 2 /\ m.instructions[1].op \in NonControlOps
    /\ m.gas_cost_for_basic_block = <<1>>
\* the instructions that read A0, and those that read A1
ReadsA0 == NonControlOps \ (ImmRegOps \cup {"load_imm", "load_u32", "store_imm_u32"})
ReadsA1 == RegRegOps \cup ImmRegOps \cup {"add"} \cup (StoreOps \ ImmediateStores)
ArithRegs(a0, a1) ==
    [RegsWith(VM_ADDR_RETURN_TO_HOST, a0, 0, 0) EXCEPT !["A1"] = a1, !["A2"] = 9]
\* For a BranchProgram: the operands compared, in registers A0 and A1 and as
\* the immediate, in every order as signed and as unsigned numbers.
CompareValues == {0, 1, -1}
BranchInstructions ==
    {asm_branch(op, "A0", "A1", 2) : op \in BranchOps \ BranchImmOps}
    \cup {asm_branch(op, "A0", v, 2) : op \in BranchImmOps, v \in CompareValues}
    \cup {asm_jump(2)}
IsBranchProgram(m) ==
    Len(m.instructions) = 4 /\ m.instructions[1].op \in BranchOps \cup {"jump"}
\* For the counter programs: what is added to the counter; 0, 1 and 2 in the
\* tests.
CounterArguments == {0, 1, 2}
IsCounter(m) == m.instructions \in {CounterProgram.instructions, HostCounterProgram.instructions}
Entries(m) ==
    IF m.instructions = FlowProgram.instructions
    THEN {<<t[1], RegsWith(VM_ADDR_RETURN_TO_HOST, t[2], t[3], t[4])>> :
            t \in {<<0, 0, 0, VM_ADDR_RETURN_TO_HOST>>,
                   <<0, 1, 0, VM_ADDR_RETURN_TO_HOST>>,
                   <<1, 0, 0, 8>>,
                   <<1, 0, 12, 12>>,
                   <<1, 0, 0, 0>>,
                   <<1, 0, 0, 6>>,
                   <<1, 0, 0, 40>>,
                   <<2, 0, VM_ADDR_RETURN_TO_HOST - 4, 0>>,
                   <<2, 0, 12, 0>>,
                   <<2, 0, -4, 0>>,
                   <<2, 0, 2, 0>>,
                   <<2, 0, 36, 0>>}}
    ELSE IF m.instructions = MemProgram.instructions
    THEN {<<e, RegsWith(VM_ADDR_RETURN_TO_HOST, a[2], a[1], v)>> :
            e \in 0..2, a \in MemAddressPairs(m), v \in MemValues}
         \cup {<<3, RegsWith(VM_ADDR_RETURN_TO_HOST, a, 0, v)>> :
                 a \in {ro_data_range(m).start + 1, heap_range(m).start, 0}, v \in MemValues}
    ELSE IF m.instructions = BasicTestProgram.instructions
    THEN {<<0, [RegsWith(VM_ADDR_RETURN_TO_HOST, ab[1], 0, 0) EXCEPT !["A1"] = ab[2]]>> :
            ab \in MainArguments}
    ELSE IF m.instructions = AccessProgram.instructions
    THEN {<<0, [RegsWith(VM_ADDR_RETURN_TO_HOST, a, s0, 4660)
                    EXCEPT !["A1"] = n[1], !["A2"] = n[2]]>> :
            a \in AccessPointers(m), n \in AccessArguments(m),
            s0 \in {heap_range(m).start, stack_range(m).end - 1}}
    ELSE IF m.instructions = CounterProgram.instructions
    THEN {<<0, RegsWith(VM_ADDR_RETURN_TO_HOST, a, 0, 0)>> : a \in CounterArguments}
    ELSE IF m.instructions = HostCounterProgram.instructions
    THEN {<<0, RegsWith(VM_ADDR_RETURN_TO_HOST, a, 0, 0)>> : a \in {1}}
    ELSE IF IsBranchProgram(m)
    THEN {<<0, [RegsWith(VM_ADDR_RETURN_TO_HOST, a0, 0, 0) EXCEPT !["A1"] = a1]>> :
            a0 \in (IF m.instructions[1].op = "jump" THEN {0} ELSE CompareValues),
            a1 \in (IF m.instructions[1].op \in BranchOps \ BranchImmOps
                    THEN CompareValues ELSE {0})}
    ELSE IF IsArithProgram(m)
    THEN {<<0, ArithRegs(a0, a1)>> :
            a0 \in (IF m.instructions[1].op \notin ReadsA0 THEN {0}
                    ELSE IF IsSome(m.gas_metering) THEN {0, 1} ELSE ArithValues),
            a1 \in (IF m.instructions[1].op \notin ReadsA1 THEN {0}
                    ELSE IF IsSome(m.gas_metering) THEN {0, 1} ELSE ArithValues)}
    ELSE {<<0, RegsWith(VM_ADDR_RETURN_TO_HOST, 0, 0, 0)>>}

\* ExecutionConfig
GasBudgets == {None} \cup {Some(G(n)) : n \in 0..MaxGas}
\* basic_test_blob is called without a budget, as the tests call it
\* the counter program is called with no budget, with none to spare for the
\* callback, and with the largest
Budgets(m) ==
    IF m.instructions = BasicTestProgram.instructions THEN {None}
    ELSE IF m.instructions = AccessProgram.instructions THEN {None}
    ELSE IF IsArithProgram(m)
    THEN (IF IsSome(m.gas_metering) THEN {Some(G(MaxGas))} ELSE {None})
    ELSE IF IsCounter(m)
    THEN {None, Some(G(0)), Some(G(2)), Some(G(MaxGas))}
    ELSE IF IsBranchProgram(m) THEN {None, Some(G(1)), Some(G(2)), Some(G(MaxGas))}
    ELSE GasBudgets
ExecutionConfig(initial_regs, gas, reset_memory_after_execution) ==
    [initial_regs |-> initial_regs, gas |-> gas,
     reset_memory_after_execution |-> reset_memory_after_execution]

\* What the host passes to prepare_for_call and call, as <<export_index, config>>:
\* an entry with any budget, or an export index the module does not have.
CallInputs(m, resets) ==
    {<<e[1], ExecutionConfig(e[2], g, r)>> : e \in Entries(m), g \in Budgets(m), r \in resets}
    \cup {<<Len(m.exports), ExecutionConfig(RegsWith(VM_ADDR_RETURN_TO_HOST, 0, 0, 0), None, FALSE)>>}

\* What a host callback does: the u64 it passes to consume_gas (a small
\* amount, 2^63 + 1 or u64::MAX) if it calls it, the value it returns in A0,
\* and whether it succeeds.
ConsumeAmounts == {G(n) : n \in 0..MaxConsume} \cup {Big(1, 1), U64_MAX}
HostBehaviours ==
    {[consume |-> c, a0 |-> Some(666), ok |-> TRUE, read |-> None, access |-> None] :
        c \in {None} \cup {Some(n) : n \in ConsumeAmounts}}
    \cup {[consume |-> c, a0 |-> None, ok |-> FALSE, read |-> None, access |-> None] : c \in {None, Some(G(MaxConsume))}}
NoHostBehaviour == [consume |-> None, a0 |-> None, ok |-> TRUE, read |-> None, access |-> None]
\* The callbacks of caller_split_works and trapping_from_hostcall_handler_works:
\* read the u32 at VM_ADDR_USER_MEMORY and return h (100 in the tests), or fail.
CallerBehaviours ==
    {[consume |-> None, a0 |-> Some(h), ok |-> TRUE, read |-> Some(VM_ADDR_USER_MEMORY), access |-> None] :
        h \in {100, 0, -1}}
    \cup {[consume |-> None, a0 |-> None, ok |-> FALSE, read |-> None, access |-> None]}

\* The callbacks of the counter program: they consume nothing, a little or
\* more than any budget, and succeed or fail.
CounterBehaviours ==
    {h \in HostBehaviours : h.consume \in {None, Some(G(1)), Some(G(MaxConsume))}}

\* A callback, and what it does, is an input only if the program can invoke
\* it; the flag reset_memory_after_execution is one only if the program can
\* write memory (otherwise the memory a call leaves is the memory reset_memory
\* builds, and the host passes TRUE).
HasOp(m, ops) == \E n \in 1..Len(m.instructions) : m.instructions[n].op \in ops
WritesReg ==
    {"add", "add_imm", "load_imm", "move_reg", "call", "call_indirect"} \cup LoadOps \cup Set3Ops
WritesMemory == StoreOps
Resets(m) == IF HasOp(m, WritesMemory) THEN BOOLEAN ELSE {TRUE}
\* The callbacks of the access program: read from, or write to, where the
\* guest points.
AccessBehaviours ==
    {[consume |-> None, a0 |-> None, ok |-> TRUE, read |-> None, access |-> Some(k)] :
        k \in {"read", "write"}}
HostInputs(m) ==
    IF m.instructions = BasicTestProgram.instructions THEN CallerBehaviours
    ELSE IF m.instructions = AccessProgram.instructions THEN AccessBehaviours
    ELSE IF m.instructions = HostCounterProgram.instructions THEN CounterBehaviours
    ELSE IF HasOp(m, {"ecalli"}) THEN HostBehaviours ELSE {NoHostBehaviour}

\* What the host does through the access handle between operations: it sets
\* A0, writes at the start of the heap if the program loads or stores (two
\* bytes, or the u32 0 over the counter of the counter programs), and consumes
\* gas if the module is metered.
AccessCall(op, reg, value, address, data, gas) ==
    [op |-> op, reg |-> reg, value |-> value, address |-> address, data |-> data, gas |-> gas]
AccessCalls(m) ==
    {AccessCall("set_reg", "A0", 5, 0, << >>, G(0))}
    \cup (IF HasOp(m, LoadOps \cup StoreOps)
          THEN {AccessCall("write_memory", "A0", 0, heap_range(m).start,
                           IF IsCounter(m) THEN <<0, 0, 0, 0>> ELSE <<9, 9>>, G(0))}
          ELSE {})
    \cup (IF IsSome(m.gas_metering)
          THEN {AccessCall("consume_gas", "A0", 0, 0, << >>, G(1))}
          ELSE {})

\* InterpreterContext: which callbacks are installed
Contexts(m) ==
    [on_hostcall : IF HasOp(m, {"ecalli"}) THEN BOOLEAN ELSE {FALSE},
     on_set_reg : IF HasOp(m, WritesReg) THEN BOOLEAN ELSE {FALSE},
     on_store : IF HasOp(m, WritesMemory) THEN BOOLEAN ELSE {FALSE}]

\* What the installed callbacks do during one operation.
Oracles(m, ctx) ==
    {[on_hostcall |-> ctx.on_hostcall, on_set_reg |-> ctx.on_set_reg, on_store |-> ctx.on_store,
      hc |-> hc, set_reg_ok |-> ok, store_ok |-> sok] :
        hc \in (IF ctx.on_hostcall THEN HostInputs(m) ELSE {NoHostBehaviour}),
        ok \in (IF ctx.on_set_reg /\ HasOp(m, WritesReg) THEN BOOLEAN ELSE {TRUE}),
        sok \in (IF ctx.on_store THEN BOOLEAN ELSE {TRUE})}

----------------------------------------------------------------------------
(* Observations kept beside the instance *)

\* The same module with the other gas-metering kind.
TwinModule(m) ==
    [m EXCEPT !.gas_metering =
        IF @ = Some("Sync") THEN Some("Async") ELSE IF @ = Some("Async") THEN Some("Sync") ELSE @]

\* the balance after the events of a log, gas being the balance before them
RECURSIVE LastBalance(_, _)
LastBalance(log, gas) ==
    IF log = << >> THEN gas
    ELSE LastBalance(Tail(log), IF Head(log).ev \in {"prepare", "enter", "consume_gas"}
                                THEN Head(log).after ELSE gas)

\* Gas accounting since the last prepare_for_call: the balance it left (the
\* budget), the sum of the block costs debited since, the sum of the amounts
\* passed to consume_gas since, whether one of those calls was clamped, and
\* whether an operation has failed for lack of gas since a budget was last
\* given.
NewAcct(gas, failed) ==
    [budget |-> gas, debits |-> G(0), consumed |-> G(0), clamped |-> FALSE, failed |-> failed]
AccountEvent(m, a, e) ==
    IF e.ev = "prepare" THEN
        NewAcct(e.after, IF IsSome(m.gas_metering) /\ IsSome(e.budget) THEN FALSE ELSE a.failed)
    ELSE IF e.ev = "enter" /\ IsSome(e.before) THEN
        [a EXCEPT !.debits = BigAdd(@, G(m.gas_cost_for_basic_block[e.at + 1]))]
    ELSE IF e.ev = "consume_gas" /\ IsSome(e.before) THEN
        [a EXCEPT !.consumed = BigAdd(@, e.amt),
                  !.clamped = @ \/ Unwrap(e.after) # BigSub(Unwrap(e.before), e.amt)]
    ELSE a
RECURSIVE Account(_, _, _)
Account(m, a, log) ==
    IF log = << >> THEN a ELSE Account(m, AccountEvent(m, a, Head(log)), Tail(log))

\* An operation failed for lack of gas: it returned OutOfGas, or a callback
\* that had taken the balance below zero failed and the operation returned Trap.
FailedForGas(r, before) ==
    \/ r.res = "OutOfGas"
    \/ /\ r.res = "Trap"
       /\ IsSome(LastBalance(r.log, before))
       /\ BigLt0(Unwrap(LastBalance(r.log, before)))
       /\ \E i \in 1..Len(r.log) : r.log[i].ev = "consume_gas"

\* the record the host keeps of a finished call()
CallRecord(config, fresh, before, r) ==
    [gas |-> config.gas, fresh |-> fresh, gas_in |-> before, res |-> r.res,
     gas_out |-> r.st.gas_remaining, rep |-> access_gas_remaining(r.st)]

\* what every operation leaves behind: the instance and the observations
Finish(op, r, hs) ==
    /\ Commit(r.st)
    /\ last' = [op |-> op, res |-> r.res]
    /\ phase' = IF r.res = "Panic" THEN "panicked" ELSE "live"
    /\ hist' = hs
    /\ UNCHANGED <<module, overflow_checks, keep_history>>

----------------------------------------------------------------------------
(* Specification *)

\* The build makes a difference only where a shift amount, the balance or
\* the size of a frame can overflow: in the arithmetic programs, where a
\* callback consumes an amount next to 2^63 or 2^64, and where the callback
\* is ext_output_video.  The other programs are built without overflow checks.
Builds(m) ==
    IF \/ IsArithProgram(m)
       \/ IsSome(m.gas_metering) /\ HostInputs(m) = HostBehaviours
       \/ HostInputs(m) = AccessBehaviours
    THEN BOOLEAN ELSE {FALSE}
InitInstance(ms, keep) ==
    /\ module \in ms
    /\ overflow_checks \in Builds(module)
    /\ LET s == new(module)
       IN /\ heap = s.heap
          /\ stack = s.stack
          /\ regs = s.regs
          /\ nth_instruction = s.nth_instruction
          /\ nth_basic_block = s.nth_basic_block
          /\ return_to_host = s.return_to_host
          /\ cycle_counter = s.cycle_counter
          /\ gas_remaining = s.gas_remaining
          /\ in_new_execution = s.in_new_execution
    /\ last = [op |-> "new", res |-> "Ok"]
    /\ phase = "live"
    /\ hist = << >>
    /\ keep_history = keep

Modules(ps) == {[p EXCEPT !.gas_metering = k] : p \in ps, k \in GasMeteringKinds}
\* without gas metering, and with the synchronous kind
ModulesSync(ps) == {[p EXCEPT !.gas_metering = k] : p \in ps, k \in {None, Some("Sync")}}

\* the programs of the gas tests
Init == InitInstance(ModulesSync({GasProgram, HostProgram}), FALSE)

\* cycle_counter has no bound in the code: the count at which the host stops
\* starting operations on an instance.  It lets the calls of the tests
\* through: seven of the counter program (test_blob_atomic_fetch_add), five
\* of GasProgram (basic_gas_metering), three of HostProgram
\* (consume_gas_in_host_function), four of basic_test_blob, the second of
\* which traps in the callback (trapping_from_hostcall_handler_works); two of
\* the counter program that calls the host, one step of an arithmetic program.
CycleLimit(m) ==
    IF m.instructions = BasicTestProgram.instructions THEN 3 * Len(m.instructions) - 1
    ELSE IF m.instructions = CounterProgram.instructions THEN MaxCycles * Len(m.instructions)
    ELSE IF m.instructions = HostCounterProgram.instructions THEN 2 * Len(m.instructions)
    ELSE IF IsArithProgram(m) THEN Len(m.instructions)
    ELSE IF m.instructions \in {GasProgram.instructions, FlowProgram.instructions} THEN MaxCycles
    ELSE IF m.instructions = HostProgram.instructions THEN 2 * Len(m.instructions) + 1
    ELSE FewCycles
\* The turns of its loop the host waits for one run: a program without a
\* backward jump dispatches each of its instructions once at most.
TurnLimit(m) ==
    IF m.instructions = FlowProgram.instructions THEN MaxTurns ELSE Len(m.instructions)
Fuel == TurnLimit(module)
\* the count at which the host stops single-stepping an instance, and running
\* one it has prepared itself
StepLimit(m) ==
    IF m.instructions = BasicTestProgram.instructions THEN Len(m.instructions) ELSE CycleLimit(m)
\* the host still drives the instance
CyclesLeft == cycle_counter < CycleLimit(module)
StepsLeft == cycle_counter < StepLimit(module)
DebtWithin == IsSome(gas_remaining) => Unwrap(gas_remaining).off >= -MaxDebt

\* InterpretedInstance::prepare_for_call
PrepareForCall ==
    \E in \in CallInputs(module, {FALSE}) :
        Finish("prepare_for_call", prepare_for_call(module, Self, in[1], in[2]), hist)

\* InterpretedInstance::run; a run whose loop never ends never returns
FinishRun(r) ==
    /\ r.res # "Running"
    /\ Finish("run", r, hist)
Run ==
    /\ StepsLeft /\ DebtWithin
    /\ \E ctx \in Contexts(module) :
        \E cx \in Oracles(module, ctx) :
            FinishRun(run(module, Self, cx, Fuel))

\* InterpretedInstance::step_once
StepOnce ==
    /\ StepsLeft /\ DebtWithin
    /\ \E ctx \in Contexts(module) :
        \E cx \in Oracles(module, ctx) :
            Finish("step_once", step_once(module, Self, cx), hist)

\* InterpretedInstance::call; the host may keep its outcome
FinishCall(config, r) ==
    /\ r.res # "Running"
    /\ Finish("call", r,
              IF keep_history /\ r.res # "Panic"
              THEN Append(hist, CallRecord(config, Self = new(module), gas_remaining, r))
              ELSE hist)
Call ==
    /\ CyclesLeft
    /\ keep_history => Len(hist) < MaxCalls
    /\ \E in \in CallInputs(module, Resets(module)), hc \in HostInputs(module) :
        /\ IsSome(in[2].gas) \/ DebtWithin
        /\ FinishCall(in[2], InterpretedInstance_call(module, Self, in[1], hc, in[2], Fuel))

\* InterpretedInstance::reset_memory
ResetMemory ==
    Finish("reset_memory", Ret(reset_memory(module, Self), "Ok", << >>), hist)

\* InterpretedInstance::access: what the host does to the instance through the
\* handle, between operations; a is one call of set_reg, write_memory or
\* consume_gas
access(m, s, a) ==
    CASE a.op = "set_reg" -> Ret(access_set_reg(s, a.reg, a.value), "Ok", << >>)
      [] a.op = "write_memory" -> write_memory(m, s, a.address, a.data)
      [] a.op = "consume_gas" ->
            Ret(consume_gas(s, a.gas), "Ok",
                <<EvConsumeGas(a.gas, s.gas_remaining, consume_gas(s, a.gas).gas_remaining)>>)
Access ==
    \E a \in AccessCalls(module) :
        /\ a.op = "consume_gas" => DebtWithin
        /\ Finish("access", access(module, Self, a), hist)

Next == PrepareForCall \/ Run \/ StepOnce \/ Call \/ ResetMemory \/ Access

Spec == Init /\ [][Next]_vars

\* the same host driving the control-flow program
InitFlow == InitInstance(ModulesSync({FlowProgram}), FALSE)
SpecFlow == InitFlow /\ [][Next]_vars

\* The control-flow program driven step by step: prepare_for_call, then
\* step_once and run.
NextSteps == PrepareForCall \/ Run \/ StepOnce \/ Access
SpecSteps == InitFlow /\ [][NextSteps]_vars

\* the memory program, stepped and run, its memory reset at any time; the
\* host prepares a call only while no instruction has executed yet
InitMem == InitInstance({MemProgram}, FALSE)
\* prepare_for_call on an instance that has not run yet
PrepareFirstCall == cycle_counter = 0 /\ PrepareForCall
NextMem == PrepareFirstCall \/ Run \/ StepOnce \/ ResetMemory \/ Access
SpecMem == InitMem /\ [][NextMem]_vars

\* the program of the host-call tests, without gas metering
InitCaller == InitInstance({BasicTestProgram}, FALSE)
SpecCaller == InitCaller /\ [][Next]_vars

\* the access program, without gas metering, stepped and run, its memory
\* reset at any time
InitAccess == InitInstance({AccessProgram}, FALSE)
SpecAccess == InitAccess /\ [][NextMem]_vars

\* Every instruction that is not a control transfer, stepped once on every
\* pair of operands; with gas metering, on two operands and the largest budget.
ArithModules ==
    {[ArithProgram(i) EXCEPT !.gas_metering = k] : i \in ArithInstructions, k \in {None, Some("Sync")}}
InitArith == InitInstance(ArithModules, FALSE)
NextArith == PrepareFirstCall \/ StepOnce
SpecArith == InitArith /\ [][NextArith]_vars

\* Every branch and the static jump, with and without gas metering, stepped
\* and run.
InitBranch == InitInstance(ModulesSync({BranchProgram(i) : i \in BranchInstructions}), FALSE)
NextBranch == PrepareFirstCall \/ StepOnce \/ Run
SpecBranch == InitBranch /\ [][NextBranch]_vars

\* The counter program driven by call() and reset_memory.
InitCounter == InitInstance({CounterProgram} \cup ModulesSync({HostCounterProgram}), FALSE)
NextCounter == Call \/ ResetMemory \/ Access
SpecCounter == InitCounter /\ [][NextCounter]_vars

\* The basic_gas_metering test: a metered instance of GasProgram driven by
\* call() alone, the host keeping the outcome of every call.
InitCalls == InitInstance({m \in Modules({GasProgram}) : IsSome(m.gas_metering)}, TRUE)
NextCalls == Call
SpecCalls == InitCalls /\ [][NextCalls]_vars

\* The host of Spec driving the metered instances only, of either kind.
InitMetered ==
    InitInstance({m \in Modules({GasProgram, HostProgram}) : IsSome(m.gas_metering)}, FALSE)
SpecMetered == InitMetered /\ [][Next]_vars

----------------------------------------------------------------------------
(* What the operations can do next.  The claims about one operation are    *)
(* stated of its outcome on every reachable instance and for every input.  *)

\* every context with everything its callbacks may do
AllCx == UNION {Oracles(module, ctx) : ctx \in Contexts(module)}

IsBlockStart(m, n) ==
    \E b \in 1..Len(m.instruction_by_basic_block) : m.instruction_by_basic_block[b] = n

\* the first event after log[i] that is not the on_set_reg observer's
AfterSetReg(log, i) ==
    IF i + 1 <= Len(log) /\ log[i + 1].ev = "set_reg" THEN i + 2 ELSE i + 1

----------------------------------------------------------------------------
(* C1 *)

\* The outcome r of run or step_once on instance s charges every block entry:
\* the balance after an entry is the balance before minus the block's cost;
\* nothing is dispatched after a negative balance and the outcome is then
\* OutOfGas, while a balance of 0 or more goes on to the block's first
\* instruction; a new execution starts with the entry block's charge; an
\* instruction that moves to another block is followed by that block's
\* charge; a block's first instruction is dispatched right after its charge.
EntryCharged(m, s, r) ==
    LET log == r.log
        n == Len(log)
    IN /\ r.res # "Panic"
       /\ s.in_new_execution => n >= 1 /\ log[1].ev = "enter" /\ log[1].at = s.nth_basic_block
       /\ r.res = "OutOfGas" => n >= 1 /\ log[n].ev \in {"enter", "check_gas"}
       /\ \A i \in 1..n :
            /\ log[i].ev = "enter" =>
                /\ log[i].after =
                       Some(BigSub(Unwrap(log[i].before), G(m.gas_cost_for_basic_block[log[i].at + 1])))
                /\ BigLt0(Unwrap(log[i].after)) <=> (i = n /\ r.res = "OutOfGas")
                /\ i < n => /\ log[i + 1].ev = "dispatch"
                            /\ log[i + 1].at = m.instruction_by_basic_block[log[i].at + 1]
            /\ log[i].ev = "dispatch" /\ i > 1 /\ IsBlockStart(m, log[i].at) =>
                log[i - 1].ev = "enter"
            /\ log[i].ev = "dispatch"
               /\ log[i].op \in {"fallthrough", "branch_eq_imm", "branch_not_eq", "jump", "call"} =>
                \/ AfterSetReg(log, i) <= n /\ log[AfterSetReg(log, i)].ev = "enter"
                \/ AfterSetReg(log, i) = n + 1 /\ r.res = "Trap"

\* C1: with gas metering enabled, every entry into a basic block subtracts the
\* block's cost from gas_remaining before any instruction of the block is
\* dispatched, and the step yields OutOfGas if and only if the balance after
\* the subtraction is negative; a balance of exactly 0 lets the block run.
C1_BlockEntryCharged ==
    IsSome(module.gas_metering) /\ phase = "live" =>
        \A cx \in AllCx :
            /\ EntryCharged(module, Self, step_once(module, Self, cx))
            /\ run(module, Self, cx, Fuel).res # "Running" =>
                   EntryCharged(module, Self, run(module, Self, cx, Fuel))

----------------------------------------------------------------------------
(* C2 *)

Metered == IsSome(module.gas_metering)
IsHostProgram == module.instructions = HostProgram.instructions
IsGasProgram == module.instructions = GasProgram.instructions

\* The accounts of the outcome r of an operation that started with the balance
\* gas: the budget is the balance the last prepare_for_call of r left, or gas
\* when r has none.
Ledger(gas, r) == Account(module, NewAcct(gas, FALSE), r.log)
\* the debits are the budget minus what is left minus what was consumed
Balanced(a, left) == a.debits = BigSub(BigSub(Unwrap(a.budget), Unwrap(left)), a.consumed)
\* the same modulo 2^64, unless a consume_gas call was clamped
BalancedUnlessClamped(a, left) ==
    ~a.clamped =>
        WrapI64(BigSub(BigSub(BigSub(Unwrap(a.budget), Unwrap(left)), a.consumed), a.debits)) = G(0)
\* the consume_gas call of the host's own handle
AccessConsume(n) == access(module, Self, AccessCall("consume_gas", "A0", 0, 0, << >>, n))

\* C2 as stated: with gas metering enabled, in every reachable state of a
\* call the sum of the per-block debits made since prepare_for_call equals
\* the initial gas budget minus gas_remaining minus the total amount passed to
\* consume_gas by host callbacks.  It holds of a whole call (which starts with
\* prepare_for_call) and is kept by every step, run and consume_gas after it.
C2_DebitsAsStated ==
    Metered =>
        /\ \A in \in CallInputs(module, Resets(module)), hc \in HostInputs(module) :
               LET r == InterpretedInstance_call(module, Self, in[1], hc, in[2], Fuel)
               IN r.res \notin {"Running", "Panic"} =>
                      Balanced(Ledger(gas_remaining, r), r.st.gas_remaining)
        /\ \A cx \in AllCx :
               Balanced(Ledger(gas_remaining, step_once(module, Self, cx)),
                        step_once(module, Self, cx).st.gas_remaining)
        /\ \A n \in ConsumeAmounts :
               Balanced(Ledger(gas_remaining, AccessConsume(n)), AccessConsume(n).st.gas_remaining)

\* C2, amended: the identity holds modulo 2^64 (the debit is an i64
\* subtraction that wraps around in a build without overflow checks), as long
\* as no consume_gas call since prepare_for_call was clamped to -1.
C2_DebitsUnlessClamped ==
    Metered =>
        /\ \A in \in CallInputs(module, Resets(module)), hc \in HostInputs(module) :
               LET r == InterpretedInstance_call(module, Self, in[1], hc, in[2], Fuel)
               IN r.res \notin {"Running", "Panic"} =>
                      BalancedUnlessClamped(Ledger(gas_remaining, r), r.st.gas_remaining)
        /\ \A cx \in AllCx :
               BalancedUnlessClamped(Ledger(gas_remaining, step_once(module, Self, cx)),
                                     step_once(module, Self, cx).st.gas_remaining)
        /\ \A n \in ConsumeAmounts :
               BalancedUnlessClamped(Ledger(gas_remaining, AccessConsume(n)),
                                     AccessConsume(n).st.gas_remaining)

\* budget 3, one block entered (cost 2), a callback that consumed 1: 0 left
C2_Witness ==
    /\ Metered /\ IsHostProgram
    /\ last = [op |-> "call", res |-> "Ok"]
    /\ regs["A0"] = 666 /\ return_to_host /\ cycle_counter = 2
    /\ gas_remaining = Some(G(0))

----------------------------------------------------------------------------
(* C3 *)

\* what a call of GasProgram (one block of cost 2) does with the balance it starts from
StartOf(rec) == IF IsSome(rec.gas) THEN Unwrap(rec.gas) ELSE Unwrap(rec.gas_in)
CarriedOver(rec) ==
    LET left == BigSub(StartOf(rec), G(2))
    IN /\ rec.gas_out = Some(left)
       /\ rec.res = IF BigLt0(left) THEN "OutOfGas" ELSE "Ok"
       /\ rec.rep = Some(IF BigLt0(left) THEN G(0) ELSE left)

\* C3: gas is carried across calls.  A call without a budget starts from the
\* balance the previous call left, a call with a budget starts from the
\* budget.  For the one-block program of cost 2: budget 4 gives Ok with 2
\* left, a second call without budget Ok with 0 left, a third call without
\* budget OutOfGas with 0 reported; a fresh metered instance starts with 0
\* gas, so that a call without budget gives OutOfGas.
C3_GasCarriedAcrossCalls ==
    /\ \A i \in 1..Len(hist) :
        /\ CarriedOver(hist[i])
        /\ hist[i].fresh <=> i = 1
        /\ hist[i].fresh => hist[i].gas_in = Some(G(0))
        /\ hist[i].fresh /\ hist[i].gas = None =>
               hist[i].res = "OutOfGas" /\ hist[i].rep = Some(G(0))
        /\ i > 1 => hist[i].gas_in = hist[i - 1].gas_out
    /\ \A i \in 1..Len(hist) :
        hist[i].gas = Some(G(4)) =>
            /\ hist[i].res = "Ok" /\ hist[i].rep = Some(G(2))
            /\ Len(hist) > i /\ hist[i + 1].gas = None =>
                /\ hist[i + 1].res = "Ok" /\ hist[i + 1].rep = Some(G(0))
                /\ Len(hist) > i + 1 /\ hist[i + 2].gas = None =>
                    hist[i + 2].res = "OutOfGas" /\ hist[i + 2].rep = Some(G(0))
    /\ Len(hist) >= 1 => gas_remaining = hist[Len(hist)].gas_out

\* the test's five calls were made: budgets 2, 1, 4, then two without budget
C3_Witness ==
    /\ Len(hist) = 5
    /\ hist[1].fresh /\ hist[1].gas = Some(G(2)) /\ hist[1].res = "Ok"
    /\ hist[2].gas = Some(G(1)) /\ hist[2].res = "OutOfGas"
    /\ hist[3].gas = Some(G(4)) /\ hist[3].res = "Ok" /\ hist[3].rep = Some(G(2))
    /\ hist[4].gas = None /\ hist[4].res = "Ok" /\ hist[4].rep = Some(G(0))
    /\ hist[5].gas = None /\ hist[5].res = "OutOfGas" /\ hist[5].rep = Some(G(0))

----------------------------------------------------------------------------
(* C4, C5 *)

\* a callback that consumes n, returns 666 in A0 and succeeds
Consuming(n) == [consume |-> Some(n), a0 |-> Some(666), ok |-> TRUE, read |-> None, access |-> None]
\* call() of export 0 with budget B and that callback
CallWith(B, n) ==
    InterpretedInstance_call(module, Self, 0, Consuming(n),
        ExecutionConfig(RegsWith(VM_ADDR_RETURN_TO_HOST, 0, 0, 0), Some(B), FALSE), Fuel)
Observed(r, g) == \E i \in 1..Len(r.log) : r.log[i].ev = "gas_remaining" /\ r.log[i].after = Some(g)
\* the host can run a whole call of the two-instruction program
CanCall == phase = "live" /\ Fuel >= 2

\* r is the outcome of a call with budget B whose callback consumes n
ConsumedInHost(B, n, r) ==
    LET g == BigSub(B, G(module.gas_cost_for_basic_block[1]))
        left == BigSub(g, n)
    IN ~BigLt0(g) =>
        /\ Observed(r, g)
        /\ IF ~BigLt0(left)
           THEN r.res = "Ok" /\ r.st.gas_remaining = Some(left)
           ELSE r.res = "OutOfGas" /\ access_gas_remaining(r.st) = Some(G(0))

\* C4: for `ecalli(0); ret` run with budget B, the callback observes
\* g = B - (entry block cost); when it consumes n the call returns Ok with
\* gas_remaining = g - n if g - n >= 0 and OutOfGas with 0 reported if
\* g - n < 0.  With B = 3 the callback observes 1: n = 0 gives Ok with 1 left,
\* n = 1 Ok with 0 left, n = 2 OutOfGas.
C4_ConsumeInHostFunction ==
    Metered /\ IsHostProgram /\ CanCall =>
        /\ \A b \in 0..MaxGas : \A n \in ConsumeAmounts :
               ConsumedInHost(G(b), n, CallWith(G(b), n))
        /\ Observed(CallWith(G(3), G(0)), G(1))
        /\ CallWith(G(3), G(0)).res = "Ok" /\ CallWith(G(3), G(0)).st.gas_remaining = Some(G(1))
        /\ CallWith(G(3), G(1)).res = "Ok" /\ CallWith(G(3), G(1)).st.gas_remaining = Some(G(0))
        /\ CallWith(G(3), G(2)).res = "OutOfGas"
        /\ access_gas_remaining(CallWith(G(3), G(2)).st) = Some(G(0))

\* budget 3, the callback consumed 2 of the 1 that was left: OutOfGas, 0 reported
C4_Witness ==
    /\ Metered /\ IsHostProgram
    /\ last = [op |-> "call", res |-> "OutOfGas"]
    /\ cycle_counter = 1
    /\ gas_remaining = Some(G(-1))
    /\ access_gas_remaining(Self) = Some(G(0))
    /\ regs["A0"] = 666

\* C5 as stated: for `ecalli(0); ret` called with budget 3, a callback that
\* consumes 1 gives Ok with gas_remaining = 1, one that consumes 2 gives Ok
\* with gas_remaining = 0, one that consumes 3 gives OutOfGas.
C5_Budget3AsStated ==
    Metered /\ IsHostProgram /\ CanCall =>
        /\ CallWith(G(3), G(1)).res = "Ok" /\ CallWith(G(3), G(1)).st.gas_remaining = Some(G(1))
        /\ CallWith(G(3), G(2)).res = "Ok" /\ CallWith(G(3), G(2)).st.gas_remaining = Some(G(0))
        /\ CallWith(G(3), G(3)).res = "OutOfGas"

\* C5, amended: the entry block costs 2, so the callback starts from 1: a
\* callback that consumes 1 gives Ok with gas_remaining = 0, one that consumes
\* 2 or 3 gives OutOfGas.
C5_Budget3Amended ==
    Metered /\ IsHostProgram /\ CanCall =>
        /\ CallWith(G(3), G(1)).res = "Ok" /\ CallWith(G(3), G(1)).st.gas_remaining = Some(G(0))
        /\ CallWith(G(3), G(2)).res = "OutOfGas"
        /\ CallWith(G(3), G(3)).res = "OutOfGas"

\* budget 3, the callback consumed 1: Ok with nothing left
C5_Witness ==
    /\ Metered /\ IsHostProgram
    /\ last = [op |-> "call", res |-> "Ok"]
    /\ gas_remaining = Some(G(0))
    /\ regs["A0"] = 666 /\ return_to_host /\ cycle_counter = 4

----------------------------------------------------------------------------
(* C6 *)

\* the consume_gas calls of an outcome
ConsumeEvents(r) == {i \in 1..Len(r.log) : r.log[i].ev = "consume_gas" /\ IsSome(r.log[i].before)}

\* C6 as stated: whenever n exceeds the current gas_remaining, consume_gas(n)
\* leaves gas_remaining at exactly -1, and the out-of-gas check after the
\* callback yields OutOfGas; when n <= gas_remaining the balance becomes
\* gas_remaining - n.
C6_SaturatesAsStated ==
    Metered /\ phase = "live" =>
        \A n \in ConsumeAmounts :
            LET g == Unwrap(gas_remaining)
                after == Unwrap(consume_gas(Self, n).gas_remaining)
            IN IF BigLt0(BigSub(g, n)) THEN after = G(-1) ELSE after = BigSub(g, n)

\* C6, amended: consume_gas(n) leaves gas_remaining - n whenever that
\* difference is an i64, negative or not (1 - 3 = -2), and exactly -1 only
\* when the difference is below i64::MIN; whenever n exceeds the balance the
\* result is negative, and a callback that returns normally is then followed
\* by OutOfGas.
C6_ClampsOnOverflowOnly ==
    Metered /\ phase = "live" =>
        /\ \A n \in ConsumeAmounts :
            LET g == Unwrap(gas_remaining)
                after == Unwrap(consume_gas(Self, n).gas_remaining)
            IN /\ after = IF InI64(BigSub(g, n)) THEN BigSub(g, n) ELSE G(-1)
               /\ BigLt0(BigSub(g, n)) => BigLt0(after)
        /\ \A cx \in AllCx :
            LET r == step_once(module, Self, cx)
            IN \A i \in ConsumeEvents(r) :
                /\ r.log[i].after = consume_gas([Self EXCEPT !.gas_remaining = r.log[i].before],
                                                r.log[i].amt).gas_remaining
                /\ BigLt0(Unwrap(r.log[i].after)) /\ cx.hc.ok => r.res = "OutOfGas"
                /\ ~BigLt0(Unwrap(r.log[i].after)) /\ cx.hc.ok => r.res = "Ok"

\* budget 3, the callback consumed 3 of the 1 that was left: -2, not -1
C6_Witness ==
    /\ Metered /\ IsHostProgram
    /\ last.res = "OutOfGas"
    /\ regs["A0"] = 666 /\ nth_instruction = 1
    /\ gas_remaining = Some(G(-2))

----------------------------------------------------------------------------
(* C7 *)

\* the outcome r of an operation of an unmetered instance has no gas in it
NoGas(r) ==
    /\ r.res # "OutOfGas"
    /\ r.st.gas_remaining = None
    /\ \A i \in 1..Len(r.log) :
        r.log[i].ev \in {"prepare", "enter", "gas_remaining", "consume_gas", "check_gas"} =>
            r.log[i].before = None /\ r.log[i].after = None

\* C7: in every reachable state gas_remaining is present if and only if the
\* module has gas metering enabled; with metering disabled consume_gas is a
\* no-op and no step ever yields OutOfGas.
C7_GasPresentIffMetered ==
    /\ IsSome(gas_remaining) <=> IsSome(module.gas_metering)
    /\ ~Metered =>
        /\ last.res # "OutOfGas"
        /\ \A n \in ConsumeAmounts : consume_gas(Self, n) = Self
        /\ \A cx \in AllCx :
            /\ NoGas(step_once(module, Self, cx))
            /\ NoGas(run(module, Self, cx, Fuel))
        /\ \A in \in CallInputs(module, Resets(module)), hc \in HostInputs(module) :
            /\ NoGas(prepare_for_call(module, Self, in[1], in[2]))
            /\ NoGas(InterpretedInstance_call(module, Self, in[1], hc, in[2], Fuel))

\* an unmetered call given a budget whose callback ran, returned, and the call with it
C7_Witness ==
    /\ ~Metered /\ IsHostProgram
    /\ last = [op |-> "call", res |-> "Ok"]
    /\ regs["A0"] = 666 /\ return_to_host /\ cycle_counter = 2
    /\ gas_remaining = None

----------------------------------------------------------------------------
(* C8 *)

\* C8 as stated: whenever the instance is live (after construction, after
\* prepare_for_call, after run, step_once or call has returned with any
\* outcome, including OutOfGas), a present gas_remaining is >= 0.
C8_NonNegativeAsStated ==
    phase = "live" /\ IsSome(gas_remaining) => ~BigLt0(Unwrap(gas_remaining))

\* the balance r started from: the budget its prepare_for_call gave, or gas
StartBalance(gas, r) == Ledger(gas, r).budget
\* consume_gas was asked, during r, for more than the balance
Overdrawn(r) ==
    \E i \in 1..Len(r.log) :
        r.log[i].ev = "consume_gas" /\ IsSome(r.log[i].after) /\ BigLt0(Unwrap(r.log[i].after))
\* r leaves no debt behind, unless it returned OutOfGas or was overdrawn
NoNewDebt(r) ==
    /\ IsSome(r.st.gas_remaining)
    /\ ~BigLt0(Unwrap(StartBalance(gas_remaining, r)))
    /\ BigLt0(Unwrap(r.st.gas_remaining))
    => r.res = "OutOfGas" \/ Overdrawn(r)

\* C8, amended: a present gas_remaining is >= 0 after construction and after
\* a budget is given, and an operation only takes it below 0 when it returns
\* OutOfGas or when consume_gas is asked, during it, for more than the balance
\* (by a callback, which gives OutOfGas or, if the callback fails, Trap; or
\* through the host's own handle, which reports nothing); right after
\* OutOfGas it is negative.
C8_NonNegativeUntilOutOfGas ==
    /\ IsSome(new(module).gas_remaining) => ~BigLt0(Unwrap(new(module).gas_remaining))
    /\ last.res = "OutOfGas" => IsSome(gas_remaining) /\ BigLt0(Unwrap(gas_remaining))
    /\ \A cx \in AllCx :
        /\ NoNewDebt(step_once(module, Self, cx))
        /\ NoNewDebt(run(module, Self, cx, Fuel))
    /\ \A in \in CallInputs(module, Resets(module)), hc \in HostInputs(module) :
        /\ NoNewDebt(prepare_for_call(module, Self, in[1], in[2]))
        /\ NoNewDebt(InterpretedInstance_call(module, Self, in[1], hc, in[2], Fuel))
    /\ \A a \in AccessCalls(module) : NoNewDebt(access(module, Self, a))

\* a run that spent its whole budget of 2 and returned Ok
C8_Witness ==
    /\ Metered /\ phase = "live" /\ IsGasProgram
    /\ last = [op |-> "run", res |-> "Ok"]
    /\ cycle_counter = 2
    /\ gas_remaining = Some(G(0))

----------------------------------------------------------------------------
(* C9 *)

\* what the handle reports for the counter gas
Reported(gas, rep) ==
    IF ~IsSome(gas) THEN rep = None
    ELSE /\ IsSome(rep)
         /\ ~BigLt0(Unwrap(rep))
         /\ rep = IF BigLt0(Unwrap(gas)) THEN Some(G(0)) ELSE gas

\* C9: the balance reported by the access handle's gas_remaining() is never
\* negative: absent when metering is disabled, equal to the internal counter
\* when that is >= 0, and 0 whenever the counter is negative (budget 1 against
\* an entry block of cost 2: OutOfGas, -1 internally, 0 reported).
C9_ReportedGasNonNegative ==
    /\ Reported(gas_remaining, access_gas_remaining(Self))
    /\ ~Metered => access_gas_remaining(Self) = None
    /\ \A cx \in AllCx :
        LET r == step_once(module, Self, cx)
        IN \A i \in 1..Len(r.log) :
            r.log[i].ev = "gas_remaining" => Reported(r.log[i].before, r.log[i].after)

\* budget 1 against the entry block of cost 2
C9_Witness ==
    /\ Metered
    /\ last.res = "OutOfGas"
    /\ IsGasProgram /\ cycle_counter = 0
    /\ gas_remaining = Some(G(-1))
    /\ access_gas_remaining(Self) = Some(G(0))

----------------------------------------------------------------------------
(* C10 *)

\* C10: the interpreter behaves identically under synchronous and
\* asynchronous gas metering: built from the same module with the other kind,
\* the instance starts in the same state, and from the same state every
\* operation with the same registers, budget and callbacks goes through the
\* same events and ends with the same outcome and the same instance,
\* gas_remaining included.
C10_SyncAsyncIdentical ==
    Metered =>
        /\ TwinModule(module).gas_metering # module.gas_metering
        /\ new(TwinModule(module)) = new(module)
        /\ reset_memory(TwinModule(module), Self) = reset_memory(module, Self)
        /\ \A cx \in AllCx :
            /\ step_once(TwinModule(module), Self, cx) = step_once(module, Self, cx)
            /\ run(TwinModule(module), Self, cx, Fuel) = run(module, Self, cx, Fuel)
        /\ \A in \in CallInputs(module, Resets(module)), hc \in HostInputs(module) :
            /\ prepare_for_call(TwinModule(module), Self, in[1], in[2])
                   = prepare_for_call(module, Self, in[1], in[2])
            /\ InterpretedInstance_call(TwinModule(module), Self, in[1], hc, in[2], Fuel)
                   = InterpretedInstance_call(module, Self, in[1], hc, in[2], Fuel)

\* an instance with asynchronous metering whose call ran out of gas in the callback
C10_Witness ==
    /\ module.gas_metering = Some("Async") /\ IsHostProgram
    /\ last = [op |-> "call", res |-> "OutOfGas"]
    /\ regs["A0"] = 666
    /\ gas_remaining = Some(G(-1)) /\ cycle_counter = 1

----------------------------------------------------------------------------
(* C11 *)

IsFlowProgram == module.instructions = FlowProgram.instructions

\* the kind of the instruction an outcome dispatched last ("" if none)
DispatchedOp(r) ==
    LET ds == {i \in 1..Len(r.log) : r.log[i].ev = "dispatch"}
    IN IF ds = {} THEN "" ELSE r.log[CHOOSE i \in ds : \A j \in ds : j <= i].op
\* the last thing an outcome did was to enter a block
Transferred(r) == r.log # << >> /\ r.log[Len(r.log)].ev = "enter"
\* pc_instr is the first instruction of pc_block
AtBlockStart(m, s) == instruction_by_basic_block(m, s.nth_basic_block) = Some(s.nth_instruction)
\* t has the position, the memory and the gas of s
SamePlace(s, t) ==
    /\ t.nth_instruction = s.nth_instruction
    /\ t.nth_basic_block = s.nth_basic_block
    /\ t.heap = s.heap /\ t.stack = s.stack
    /\ t.gas_remaining = s.gas_remaining

\* a step that ended in a control transfer landed on the start of a block,
\* unless it was a dynamic jump that returned to the host (which leaves the
\* instance where the entry charge of a new execution, if any, had left it)
LandedOnBlockStart(m, s, r) ==
    DispatchedOp(r) \in ControlOps /\ r.res \in {"Ok", "OutOfGas"} =>
        \/ Transferred(r) /\ AtBlockStart(m, r.st)
        \/ /\ ~Transferred(r)
           /\ DispatchedOp(r) \in {"jump_indirect", "call_indirect"}
           /\ r.res = "Ok" /\ r.st.return_to_host
           /\ SamePlace(start_execution(m, s).st, r.st)

\* C11: guest code never jumps into the middle of a basic block: after every
\* control-transfer instruction that completes without Trap and without
\* returning to the host (taken or not-taken branch, jump, call,
\* jump_indirect, call_indirect, fallthrough) pc_instr equals
\* instruction_by_basic_block(pc_block), for a module whose blocks each end in
\* a terminator; a run that ends OutOfGas stands at the start of a block too.
C11_NoJumpIntoBlock ==
    phase = "live" =>
        \A cx \in AllCx :
            /\ LandedOnBlockStart(module, Self, step_once(module, Self, cx))
            /\ run(module, Self, cx, Fuel).res = "OutOfGas" =>
                   AtBlockStart(module, run(module, Self, cx, Fuel).st)

\* the branch of @0 was not taken, @1 ran and fell through into @2
C11_Witness ==
    /\ IsFlowProgram
    /\ last = [op |-> "step_once", res |-> "Ok"]
    /\ regs["A0"] = 1 /\ regs["A1"] = 1
    /\ nth_basic_block = 2 /\ nth_instruction = 3 /\ cycle_counter = 3

----------------------------------------------------------------------------
(* C12, C13 *)

DynamicJumps == {"jump_indirect", "call_indirect"}
\* the instruction a step from s dispatches, if it gets that far
NextInstr(m, s) ==
    IF start_execution(m, s).res = "Ok" THEN instructions_get(m, s.nth_instruction) ELSE None
\* a step from s dispatches a dynamic jump
AtDynamicJump(m, s) == IsSome(NextInstr(m, s)) /\ Unwrap(NextInstr(m, s)).op \in DynamicJumps
\* its target: registers[base] + offset, 32-bit wrapping
DynTarget(s, i) == wrapping_add(s.regs[i.s1], i.imm)
\* the register-write observer aborted the instruction
ObserverFailed(r, cx) ==
    cx.on_set_reg /\ ~cx.set_reg_ok /\ \E i \in 1..Len(r.log) : r.log[i].ev = "set_reg"

\* the three targets that trap
TargetTraps(m, t) ==
    \/ t = 0
    \/ t % VM_CODE_ADDRESS_ALIGNMENT # 0
    \/ DivU(t, VM_CODE_ADDRESS_ALIGNMENT) \notin DOMAIN m.jump_table

\* C12: a dynamic jump (jump_indirect or call_indirect) whose target
\* registers[base] + offset (32-bit wrapping) is not RETURN_TO_HOST yields Trap
\* and leaves pc_instr, pc_block and gas_remaining unchanged when the target
\* is 0 (even if jump-table index 0 maps to a block), when it is not a
\* multiple of the code-address alignment (even if target / alignment is in
\* the jump table), and when target / alignment is not in the jump table.
C12_BadDynamicJumpTraps ==
    phase = "live" /\ AtDynamicJump(module, Self) =>
        LET t == DynTarget(Self, Unwrap(NextInstr(module, Self)))
        IN t # VM_ADDR_RETURN_TO_HOST /\ TargetTraps(module, t) =>
            \A cx \in AllCx :
                LET r == step_once(module, Self, cx)
                IN /\ r.res = "Trap"
                   /\ SamePlace(start_execution(module, Self).st, r.st)
                   /\ r.st.return_to_host = return_to_host
                   /\ ~Transferred(r)

\* an indirect call whose target wrapped around to 0 trapped where it stood,
\* its return address written
C12_Witness ==
    /\ IsFlowProgram /\ 0 \in DOMAIN module.jump_table
    /\ last = [op |-> "step_once", res |-> "Trap"]
    /\ nth_instruction = 7 /\ nth_basic_block = 6 /\ cycle_counter = 1
    /\ regs["S0"] = -4 /\ regs["T0"] = 16
    /\ ~return_to_host

\* the jump that gave r from s0 went to block bb: it stands at the first
\* instruction of bb, the entry of bb is the last event, and its cost is paid
JumpedTo(m, s0, r, bb) ==
    /\ r.st.nth_basic_block = bb
    /\ r.st.nth_instruction = m.instruction_by_basic_block[bb + 1]
    /\ Transferred(r) /\ r.log[Len(r.log)].at = bb
    /\ IsSome(m.gas_metering) =>
        /\ r.st.gas_remaining =
               Some(BigSub(Unwrap(s0.gas_remaining), G(m.gas_cost_for_basic_block[bb + 1])))
        /\ r.res = IF BigLt0(Unwrap(r.st.gas_remaining)) THEN "OutOfGas" ELSE "Ok"
    /\ ~IsSome(m.gas_metering) => r.res = "Ok" /\ r.st.gas_remaining = None
\* the indirect call i that gave r from s0 was aborted by the observer of
\* register writes: Trap where it stood, no block entered, the return address
\* written and no other register changed
CallAborted(m, s0, i, r) ==
    /\ i.op = "call_indirect"
    /\ r.res = "Trap" /\ SamePlace(s0, r.st) /\ ~Transferred(r)
    /\ r.st.return_to_host = s0.return_to_host
    /\ Some(r.st.regs[i.d]) = get_return_address(m, s0)
    /\ \A x \in Reg \ {i.d} : r.st.regs[x] = s0.regs[x]

\* C13 as stated: for any dynamic jump whose target t is non-zero, aligned,
\* not RETURN_TO_HOST and in the jump table, the destination is pc_block =
\* basic_block_by_jump_table_index(t / alignment) and pc_instr =
\* instruction_by_basic_block(pc_block), and the new-block hook then charges
\* that block's gas cost.
C13_DynamicJumpDestination ==
    phase = "live" /\ AtDynamicJump(module, Self) =>
        LET t == DynTarget(Self, Unwrap(NextInstr(module, Self)))
        IN t # VM_ADDR_RETURN_TO_HOST /\ ~TargetTraps(module, t) =>
            \A cx \in AllCx :
                JumpedTo(module, start_execution(module, Self).st, step_once(module, Self, cx),
                         module.jump_table[t \div VM_CODE_ADDRESS_ALIGNMENT])

\* C13, amended: the same for every jump_indirect, and for every
\* call_indirect whose write of the return address the register-write
\* observer, if one is installed, accepts.  A call_indirect whose write the
\* observer rejects yields Trap before the target is looked at: position,
\* memory and gas_remaining are unchanged, no block is entered, and the
\* return-address register holds the return address.
C13_DynamicJumpUnlessAborted ==
    phase = "live" /\ AtDynamicJump(module, Self) =>
        LET t == DynTarget(Self, Unwrap(NextInstr(module, Self)))
        IN t # VM_ADDR_RETURN_TO_HOST /\ ~TargetTraps(module, t) =>
            \A cx \in AllCx :
                IF /\ Unwrap(NextInstr(module, Self)).op = "call_indirect"
                   /\ cx.on_set_reg /\ ~cx.set_reg_ok
                THEN CallAborted(module, start_execution(module, Self).st,
                                 Unwrap(NextInstr(module, Self)), step_once(module, Self, cx))
                ELSE JumpedTo(module, start_execution(module, Self).st,
                              step_once(module, Self, cx),
                              module.jump_table[t \div VM_CODE_ADDRESS_ALIGNMENT])

\* the indirect call of @6 went to @7 (jump-table index 4) and paid for it
C13_Witness ==
    /\ IsFlowProgram /\ Metered
    /\ last = [op |-> "step_once", res |-> "Ok"]
    /\ regs["S0"] = 12 /\ regs["T0"] = 16
    /\ nth_basic_block = 7 /\ nth_instruction = 8 /\ cycle_counter = 1

----------------------------------------------------------------------------
(* C14 *)

\* the dispatches of dynamic jumps in an outcome that were followed by no block entry
Returns(r) ==
    {i \in 1..Len(r.log) :
        /\ r.log[i].ev = "dispatch" /\ r.log[i].op \in DynamicJumps
        /\ ~(AfterSetReg(r.log, i) <= Len(r.log) /\ r.log[AfterSetReg(r.log, i)].ev = "enter")}

\* C14: run returns Ok if and only if return_flag was set by a dynamic jump
\* whose target equals RETURN_TO_HOST; that jump sets only return_flag (and,
\* for call_indirect, first writes the return-address register): it charges
\* no gas and leaves pc_instr, pc_block and memory unchanged, and no further
\* instruction is dispatched in that run.
C14_ReturnToHost ==
    phase = "live" =>
        \A cx \in AllCx :
            /\ LET r == step_once(module, Self, cx)
                   s0 == start_execution(module, Self).st
               IN /\ AtDynamicJump(module, Self)
                     /\ DynTarget(Self, Unwrap(NextInstr(module, Self))) = VM_ADDR_RETURN_TO_HOST
                     /\ ~ObserverFailed(r, cx) =>
                        /\ r.res = "Ok" /\ r.st.return_to_host
                        /\ SamePlace(s0, r.st) /\ ~Transferred(r)
                        /\ \A x \in Reg :
                            r.st.regs[x] # s0.regs[x] =>
                                /\ Unwrap(NextInstr(module, Self)).op = "call_indirect"
                                /\ x = Unwrap(NextInstr(module, Self)).d
                                /\ Some(r.st.regs[x]) = get_return_address(module, s0)
                  /\ r.st.return_to_host /\ ~return_to_host =>
                        /\ AtDynamicJump(module, Self)
                        /\ DynTarget(Self, Unwrap(NextInstr(module, Self))) = VM_ADDR_RETURN_TO_HOST
            /\ LET r == run(module, Self, cx, Fuel)
               IN r.res # "Running" =>
                    /\ r.res = "Ok" => r.st.return_to_host /\ Returns(r) # {}
                    /\ \A i \in Returns(r) :
                        /\ \A j \in 1..Len(r.log) : r.log[j].ev = "dispatch" => j <= i
                        /\ r.res \in {"Ok", "Trap"}
                        /\ r.res = "Ok" <=> r.st.return_to_host /\ ~ObserverFailed(r, cx)

\* a run went through @0, @2, @4 and @3 and returned to the host from there
C14_Witness ==
    /\ IsFlowProgram
    /\ last = [op |-> "run", res |-> "Ok"]
    /\ return_to_host /\ cycle_counter = 4
    /\ nth_basic_block = 3 /\ nth_instruction = 4
    /\ regs["S1"] = VM_ADDR_RETURN_TO_HOST /\ regs["T0"] = 4

----------------------------------------------------------------------------
(* C15 *)

IsMemProgram == module.instructions = MemProgram.instructions
\* the number of bytes an instruction loads or stores
AccessLength(op) ==
    IF op \in {"load_u8", "load_i8", "load_indirect_u8", "load_indirect_i8",
               "store_u8", "store_indirect_u8", "store_imm_u8", "store_imm_indirect_u8"} THEN 1
    ELSE IF op \in {"load_u16", "load_i16", "load_indirect_u16", "load_indirect_i16",
                    "store_u16", "store_indirect_u16", "store_imm_u16", "store_imm_indirect_u16"} THEN 2
    ELSE 4
\* (base ? registers[base] : 0) + offset, 32-bit wrapping
EffectiveAddress(s, i) == wrapping_add(IF i.op \in IndirectOps THEN s.regs[i.s1] ELSE 0, i.imm)
\* the whole of [addr, addr + L) lies in the range
InRegion(range, addr, L) ==
    /\ ~LtU(addr, range.start)
    /\ LtU(addr, range.end)
    /\ addr + L <= range.end
Readable(m, addr, L) ==
    \E range \in {ro_data_range(m), heap_range(m), stack_range(m)} : InRegion(range, addr, L)
Writable(m, addr, L) ==
    \E range \in {heap_range(m), stack_range(m)} : InRegion(range, addr, L)
AtLoad(m, s) == IsSome(NextInstr(m, s)) /\ Unwrap(NextInstr(m, s)).op \in LoadOps
\* nothing but the flag of a new execution differs
Untouched(s, t) == SamePlace(s, t) /\ s.regs = t.regs /\ s.return_to_host = t.return_to_host

\* C15 as stated: a load of L bytes at addr = (base ? registers[base] : 0) +
\* offset succeeds if and only if [addr, addr+L) lies inside one of the
\* read-only, heap or stack regions; otherwise it yields Trap and leaves every
\* register, pc_instr and memory unchanged.
C15_LoadIffInRegion ==
    phase = "live" /\ AtLoad(module, Self) =>
        LET i == Unwrap(NextInstr(module, Self))
        IN \A cx \in AllCx :
            LET r == step_once(module, Self, cx)
            IN /\ r.res = "Ok" <=> Readable(module, EffectiveAddress(Self, i), AccessLength(i.op))
               /\ r.res # "Ok" => r.res = "Trap" /\ Untouched(Self, r.st)

\* C15 amended: the load succeeds if and only if [addr, addr+L) lies inside
\* one region and the register-write observer, if one is installed, accepts
\* the write.  A range that is not inside one region yields Trap with every
\* register, pc_instr and memory unchanged; a write the observer rejects
\* yields Trap with pc_instr and memory unchanged and the loaded value already
\* in the destination register.
C15_LoadIffInRegionAndAccepted ==
    phase = "live" /\ AtLoad(module, Self) =>
        LET i == Unwrap(NextInstr(module, Self))
            inside == Readable(module, EffectiveAddress(Self, i), AccessLength(i.op))
        IN \A cx \in AllCx :
            LET r == step_once(module, Self, cx)
                rejected == cx.on_set_reg /\ ~cx.set_reg_ok
            IN /\ r.res = "Ok" <=> inside /\ ~rejected
               /\ r.res = "Ok" => r.st.nth_instruction = nth_instruction + 1
               /\ ~inside => r.res = "Trap" /\ Untouched(Self, r.st)
               /\ inside /\ rejected =>
                    /\ r.res = "Trap"
                    /\ SamePlace(Self, r.st)
                    /\ \A x \in Reg \ {i.d} : r.st.regs[x] = regs[x]
                    /\ r.st.regs[i.d] = step_once(module, Self, [cx EXCEPT !.set_reg_ok = TRUE]).st.regs[i.d]

\* the 16-bit load of @1 read 0x8a18 back from the start of the heap
C15_Witness ==
    /\ IsMemProgram
    /\ last = [op |-> "step_once", res |-> "Ok"]
    /\ nth_instruction = 6
    /\ regs["A0"] = heap_range(module).start
    /\ regs["A2"] = 35352

----------------------------------------------------------------------------
(* C16 *)

AtStore(m, s) == IsSome(NextInstr(m, s)) /\ Unwrap(NextInstr(m, s)).op \in WritesMemory
Notified(r) == \E k \in 1..Len(r.log) : r.log[k].ev = "store"

\* C16 as stated: a store of L bytes at effective address addr succeeds if
\* and only if [addr, addr+L) lies inside the heap or inside the stack; any
\* other store yields Trap and leaves heap, stack and pc_instr unchanged.
C16_StoreIffWritable ==
    phase = "live" /\ AtStore(module, Self) =>
        LET i == Unwrap(NextInstr(module, Self))
        IN \A cx \in AllCx :
            LET r == step_once(module, Self, cx)
            IN /\ r.res = "Ok" <=> Writable(module, EffectiveAddress(Self, i), AccessLength(i.op))
               /\ r.res # "Ok" => r.res = "Trap" /\ Untouched(Self, r.st)

\* C16 amended: the store succeeds if and only if [addr, addr+L) lies inside
\* the heap or inside the stack and the store observer, if one is installed,
\* does not fail.  A store whose range starts in the read-only region, lies
\* outside all regions or crosses the end of a region yields Trap and leaves
\* heap, stack, registers and pc_instr unchanged, without notifying the
\* observer; a store the observer fails on yields Trap with pc_instr
\* unchanged and all L bytes written.
C16_StoreIffWritableAndAccepted ==
    phase = "live" /\ AtStore(module, Self) =>
        LET i == Unwrap(NextInstr(module, Self))
            inside == Writable(module, EffectiveAddress(Self, i), AccessLength(i.op))
        IN \A cx \in AllCx :
            LET r == step_once(module, Self, cx)
                failed == cx.on_store /\ ~cx.store_ok
                done == step_once(module, Self, [cx EXCEPT !.store_ok = TRUE])
            IN /\ r.res = "Ok" <=> inside /\ ~failed
               /\ r.res = "Ok" => r.st.nth_instruction = nth_instruction + 1
               /\ ~inside => r.res = "Trap" /\ Untouched(Self, r.st) /\ ~Notified(r)
               /\ inside /\ failed =>
                    /\ r.res = "Trap"
                    /\ r.st.nth_instruction = nth_instruction
                    /\ r.st.regs = regs
                    /\ r.st.heap = done.st.heap /\ r.st.stack = done.st.stack
                    /\ done.res = "Ok" /\ Notified(r)

\* the 16-bit store of @1 wrote 0x8a18 at the start of the stack
C16_Witness ==
    /\ IsMemProgram
    /\ last = [op |-> "step_once", res |-> "Ok"]
    /\ nth_instruction = 5
    /\ regs["S0"] = stack_range(module).start
    /\ SubSeq(stack, 1, 2) = <<24, 138>>
    /\ heap = Resize(module.rw_data, module.heap_size)

----------------------------------------------------------------------------
(* C17 *)

\* the guest's memory as one sequence of bytes from VM_ADDR_USER_MEMORY on
Memory(m, s) == m.ro_data \o s.heap \o s.stack
ByteAt(m, s, a) == Memory(m, s)[a - VM_ADDR_USER_MEMORY + 1]
Addresses(m) == {VM_ADDR_USER_MEMORY + k : k \in 0..(Len(m.ro_data) + m.heap_size + m.stack_size - 1)}
\* the value a store instruction stores
StoredValue(s, i) ==
    IF i.op \in {"store_imm_u8", "store_imm_u16", "store_imm_u32",
                 "store_imm_indirect_u8", "store_imm_indirect_u16", "store_imm_indirect_u32"}
    THEN i.value ELSE s.regs[i.s2]
\* v mod 2^(8 L) as a 32-bit word, and the same sign-extended from 8 L bits
Truncated(v, L) == IF L = 1 THEN v % 256 ELSE IF L = 2 THEN v % 65536 ELSE v
SignExtended(v, L) ==
    IF L = 1 THEN (IF v % 256 >= 128 THEN (v % 256) - 256 ELSE v % 256)
    ELSE IF L = 2 THEN (IF v % 65536 >= 32768 THEN (v % 65536) - 65536 ELSE v % 65536)
    ELSE v
\* byte k (0 the lowest) of v
ByteOf(v, k) == IF k = 0 THEN v % 256 ELSE IF k = 1 THEN (v \div 256) % 256
                ELSE IF k = 2 THEN (v \div 65536) % 256 ELSE (v \div 16777216) % 256
UnsignedTy(L) == IF L = 1 THEN "u8" ELSE IF L = 2 THEN "u16" ELSE "u32"
SignedTy(L) == IF L = 1 THEN "i8" ELSE IF L = 2 THEN "i16" ELSE "u32"
NoObservers ==
    [on_hostcall |-> FALSE, on_set_reg |-> FALSE, on_store |-> FALSE, hc |-> NoHostBehaviour,
     set_reg_ok |-> TRUE, store_ok |-> TRUE]

\* C17: after a successful store of width W (8, 16 or 32 bits) of value v at
\* address a, an unsigned load of the same width at a returns v mod 2^W, a
\* signed sub-word load returns that value sign-extended to 32 bits, the bytes
\* at a, a+1, ... are those of v from the lowest up (little-endian), and every
\* byte outside [a, a+W/8) is unchanged.
C17_StoreLoadRoundTrip ==
    phase = "live" /\ AtStore(module, Self) =>
        LET i == Unwrap(NextInstr(module, Self))
            a == EffectiveAddress(Self, i)
            v == StoredValue(Self, i)
            L == AccessLength(i.op)
        IN \A cx \in AllCx :
            LET r == step_once(module, Self, cx)
                u == load(module, r.st, NoObservers, UnsignedTy(L), "T0", None, a)
                sg == load(module, r.st, NoObservers, SignedTy(L), "T1", Some("T2"),
                          wrapping_add(a, 0 - r.st.regs["T2"]))
            IN r.res = "Ok" =>
                /\ u.res = "Ok" /\ u.st.regs["T0"] = Truncated(v, L)
                /\ sg.res = "Ok" /\ sg.st.regs["T1"] = SignExtended(v, L)
                /\ \A k \in 0..(L - 1) : ByteAt(module, r.st, a + k) = ByteOf(v, k)
                /\ \A x \in Addresses(module) :
                    ~(x >= a /\ x < a + L) => ByteAt(module, r.st, x) = ByteAt(module, Self, x)

\* @1 stored 0xfedc8a18 as 16 bits at the start of the heap and loaded it
\* back unsigned (0x8a18) and signed (0xffff8a18)
C17_Witness ==
    /\ IsMemProgram
    /\ last = [op |-> "step_once", res |-> "Ok"]
    /\ nth_instruction = 7
    /\ regs["S1"] = -19101160
    /\ regs["S0"] = heap_range(module).start /\ regs["A0"] = regs["S0"]
    /\ regs["A2"] = 35352 /\ regs["A3"] = -30184
    /\ SubSeq(heap, 1, 2) = <<24, 138>>

----------------------------------------------------------------------------
(* C18 *)

\* C18: after reset_memory, in any state, heap[0..rw_data.length] equals
\* rw_data, every remaining heap byte is 0, every stack byte is 0,
\* heap.length = heap_size and stack.length = stack_size; registers,
\* pc_instr, pc_block, return_flag, gas_remaining and cycle_counter are
\* unchanged, and reset_memory is idempotent.
C18_ResetMemory ==
    /\ phase = "live" =>
        LET t == reset_memory(module, Self)
        IN /\ Len(t.heap) = module.heap_size /\ Len(t.stack) = module.stack_size
           /\ \A k \in 1..Len(t.heap) :
                t.heap[k] = IF k <= Len(module.rw_data) THEN module.rw_data[k] ELSE 0
           /\ \A k \in 1..Len(t.stack) : t.stack[k] = 0
           /\ t.regs = regs
           /\ t.nth_instruction = nth_instruction /\ t.nth_basic_block = nth_basic_block
           /\ t.return_to_host = return_to_host
           /\ t.gas_remaining = gas_remaining /\ t.cycle_counter = cycle_counter
           /\ reset_memory(module, t) = t
    /\ last.op = "reset_memory" =>
        /\ SubSeq(heap, 1, Len(module.rw_data)) = module.rw_data
        /\ \A k \in (Len(module.rw_data) + 1)..Len(heap) : heap[k] = 0
        /\ \A k \in 1..Len(stack) : stack[k] = 0

\* memory was reset after the 16-bit store of @1 had written to the stack
C18_Witness ==
    /\ IsMemProgram
    /\ last = [op |-> "reset_memory", res |-> "Ok"]
    /\ nth_instruction = 5 /\ cycle_counter = 1
    /\ regs["S0"] = stack_range(module).start /\ regs["S1"] = -19101160
    /\ heap = <<1, 2>> \o [k \in 1..(module.heap_size - 2) |-> 0]
    /\ \A k \in 1..Len(stack) : stack[k] = 0

----------------------------------------------------------------------------
(* C19 *)

IsBasicTestProgram == module.instructions = BasicTestProgram.instructions
\* what the callback read at VM_ADDR_USER_MEMORY during an operation
ReadByCallback(r) ==
    {r.log[k].val : k \in {j \in 1..Len(r.log) :
                            r.log[j].ev = "read_memory" /\ r.log[j].at = VM_ADDR_USER_MEMORY}}

\* C19: for the program `store_imm_u32(0x12345678, USER_BASE); add(S0,A0,A1);
\* ecalli(0); add(A0,A0,S0); ret` called with A0 = a, A1 = b, the host
\* callback reads 0x12345678 at USER_BASE, the value h it places in A0 is
\* visible to the instructions after ecalli, and the call returns Ok with
\* A0 = h + a + b (111 for h = 100, a = 1, b = 10).
C19_HostCallRoundTrip ==
    phase = "live" /\ IsBasicTestProgram =>
        \A in \in CallInputs(module, Resets(module)), hc \in HostInputs(module) :
            LET r == InterpretedInstance_call(module, Self, in[1], hc, in[2], Fuel)
                a == in[2].initial_regs["A0"]
                b == in[2].initial_regs["A1"]
            IN in[1] = 0 /\ hc.ok /\ r.res # "Running" =>
                /\ r.res = "Ok" /\ r.st.return_to_host
                /\ ReadByCallback(r) = {305419896}
                /\ r.st.regs["A0"] = wrapping_add(wrapping_add(Unwrap(hc.a0), a), b)
                /\ a = 1 /\ b = 10 /\ hc.a0 = Some(100) => r.st.regs["A0"] = 111

\* main(1, 10) returned 111, the bytes of 0x12345678 in memory
C19_Witness ==
    /\ IsBasicTestProgram
    /\ last = [op |-> "call", res |-> "Ok"]
    /\ return_to_host
    /\ regs["A0"] = 111 /\ regs["A1"] = 10 /\ regs["S0"] = 11
    /\ SubSeq(heap, 1, 4) = <<120, 86, 52, 18>>

----------------------------------------------------------------------------
(* C20 *)

AtEcalli(m, s) == IsSome(NextInstr(m, s)) /\ Unwrap(NextInstr(m, s)).op = "ecalli"
\* the events of an outcome from the invocation of the callback on
SinceHostcall(r) ==
    LET hs == {k \in 1..Len(r.log) : r.log[k].ev = "hostcall"}
    IN IF hs = {} THEN << >> ELSE SubSeq(r.log, CHOOSE k \in hs : \A j \in hs : k <= j, Len(r.log))
Entered(log) == \E k \in 1..Len(log) : log[k].ev = "enter"

\* C20: ecalli(imm) yields Trap when no host-call callback is installed and
\* when the callback returns an error, and in both cases pc_instr is not
\* advanced; when the callback succeeds, pc_instr is advanced by exactly 1,
\* pc_block is unchanged, no block cost is charged, and the out-of-gas check
\* runs after the advance, so an OutOfGas result leaves pc_instr pointing past
\* the ecalli.
C20_Ecalli ==
    phase = "live" /\ AtEcalli(module, Self) =>
        LET s0 == start_execution(module, Self).st
        IN \A cx \in AllCx :
            LET r == step_once(module, Self, cx)
                after == LastBalance(SinceHostcall(r), s0.gas_remaining)
            IN /\ ~cx.on_hostcall =>
                    /\ r.res = "Trap" /\ SamePlace(s0, r.st) /\ r.st.regs = s0.regs
                    /\ SinceHostcall(r) = << >>
               /\ cx.on_hostcall /\ ~cx.hc.ok =>
                    /\ r.res = "Trap"
                    /\ r.st.nth_instruction = s0.nth_instruction
                    /\ r.st.nth_basic_block = s0.nth_basic_block
                    /\ SinceHostcall(r) # << >>
               /\ cx.on_hostcall /\ cx.hc.ok =>
                    /\ r.st.nth_instruction = s0.nth_instruction + 1
                    /\ r.st.nth_basic_block = s0.nth_basic_block
                    /\ ~Entered(SinceHostcall(r))
                    /\ r.st.gas_remaining = after
                    /\ r.log[Len(r.log)].ev = "check_gas"
                    /\ r.res = IF IsSome(after) /\ BigLt0(Unwrap(after)) THEN "OutOfGas" ELSE "Ok"

\* the callback took the balance below zero: OutOfGas, pc_instr past the ecalli
C20_Witness ==
    /\ IsHostProgram /\ Metered
    /\ last = [op |-> "step_once", res |-> "OutOfGas"]
    /\ nth_instruction = 1 /\ nth_basic_block = 0
    /\ BigLt0(Unwrap(gas_remaining))
    /\ regs["A0"] = 666 /\ cycle_counter = 1

----------------------------------------------------------------------------
(* C21 *)

IsCounterProgram == IsCounter(module)
\* the u32 at the start of the heap
Counter(s) == from_slice("u32", SubSeq(s.heap, 1, 4))
\* two calls ended alike: the outcome, the registers, the memory, the balance
SameOutcome(r1, r2) ==
    /\ r1.res = r2.res
    /\ r1.st.regs = r2.st.regs
    /\ r1.st.heap = r2.st.heap /\ r1.st.stack = r2.st.stack
    /\ r1.st.gas_remaining = r2.st.gas_remaining
\* a call of a metered module that is given a budget, or of an unmetered one
WithNewBudget(config) == IsSome(module.gas_metering) => IsSome(config.gas)

\* C21: after a call that returned Trap or OutOfGas, reset_memory followed by
\* a call with a new gas budget ends as the same call (same export, same
\* initial registers, same budget, same callback) ends on a new instance:
\* same outcome and same final registers (and memory and balance).
C21_ReusableAfterFailure ==
    (phase = "live" /\ last.op = "call" /\ last.res \in {"Trap", "OutOfGas"}) =>
        \A in \in CallInputs(module, Resets(module)), hc \in HostInputs(module) :
            (IsSome(get_export(module, in[1])) /\ WithNewBudget(in[2])) =>
                SameOutcome(
                    InterpretedInstance_call(module, reset_memory(module, Self),
                                             in[1], hc, in[2], Fuel),
                    InterpretedInstance_call(module, new(module), in[1], hc, in[2], Fuel))

\* a call that added 1 to the counter failed in its callback (4 cycles), and
\* then, the memory reset, the same call succeeded (6 cycles): it found the
\* counter at 5 again
C21_Witness ==
    /\ IsCounterProgram
    /\ last = [op |-> "call", res |-> "Ok"]
    /\ cycle_counter = 10
    /\ regs["A0"] = 5 /\ regs["A2"] = 6 /\ Counter(Self) = 6

----------------------------------------------------------------------------
(* C22 *)

\* the run of a call: prepare_for_call and run, before the exit of call
RunOfCall(s, in, hc) ==
    call_run(module, prepare_for_call(module, s, in[1], in[2]),
             [on_hostcall |-> TRUE, on_set_reg |-> FALSE, on_store |-> FALSE, hc |-> hc,
              set_reg_ok |-> TRUE, store_ok |-> TRUE],
             Fuel)
\* the memory reset_memory builds
FreshMemory(s) ==
    /\ s.heap = Resize(module.rw_data, module.heap_size)
    /\ s.stack = Resize(<< >>, module.stack_size)
\* what call leaves, r, given what its run left, ran
MemoryOnExit(config, r, ran) ==
    /\ r.res = ran.res
    /\ r.st.regs = ran.st.regs
    /\ IF config.reset_memory_after_execution
       THEN FreshMemory(r.st)
       ELSE r.st.heap = ran.st.heap /\ r.st.stack = ran.st.stack
\* the instance with other registers
WithRegs(s, rs) == [s EXCEPT !.regs = rs]
\* what the counter program does with the memory it starts from: it returns
\* the counter and leaves it raised by its argument
CounterCarried(s, config, r) ==
    (IsCounterProgram /\ r.res = "Ok") =>
        /\ r.st.regs["A0"] = Counter(s)
        /\ ~config.reset_memory_after_execution =>
              Counter(r.st) = wrapping_add(Counter(s), config.initial_regs["A0"])

\* the exit of a call whose run left ran, with the flag and without it
ExitOfCall(s, config, ran) ==
    ran.res \in {"Ok", "Trap", "OutOfGas"} =>
        \A flag \in BOOLEAN :
            /\ MemoryOnExit([config EXCEPT !.reset_memory_after_execution = flag],
                   call_exit(module, [config EXCEPT !.reset_memory_after_execution = flag], ran),
                   ran)
            /\ CounterCarried(s, [config EXCEPT !.reset_memory_after_execution = flag],
                   call_exit(module, [config EXCEPT !.reset_memory_after_execution = flag], ran))

\* C22: call resets heap and stack on exit if reset_memory_after_execution is
\* true, whatever the outcome (Ok, Trap, OutOfGas), and otherwise leaves them
\* as its run left them; the memory a call leaves is what the next call
\* starts from (the counter persists across calls), while the registers it
\* finds make no difference: they are overwritten by initial_registers.
C22_ResetMemoryOnExit ==
    phase = "live" =>
        \A in \in CallInputs(module, {FALSE}), hc \in HostInputs(module) :
            /\ ExitOfCall(Self, in[2], RunOfCall(Self, in, hc))
            /\ prepare_for_call(module, Self, in[1], in[2]).res = "Ok" =>
                /\ prepare_for_call(module, Self, in[1], in[2]).st.regs = in[2].initial_regs
                /\ prepare_for_call(module, Self, in[1], in[2]).st
                     = prepare_for_call(module, WithRegs(Self, [r \in Reg |-> 0]),
                                        in[1], in[2]).st

\* two calls that added 1 without resetting the memory: the second returned
\* 6, the counter is at 7
C22_Witness ==
    /\ IsCounterProgram
    /\ last = [op |-> "call", res |-> "Ok"]
    /\ cycle_counter = 12
    /\ regs["A0"] = 6 /\ Counter(Self) = 7

----------------------------------------------------------------------------
(* C23: shift amounts *)

ShiftLeftOps == {"shift_logical_left", "shift_logical_left_imm", "shift_logical_left_imm_alt"}
ShiftLogicalRightOps ==
    {"shift_logical_right", "shift_logical_right_imm", "shift_logical_right_imm_alt"}
ShiftArithmeticRightOps ==
    {"shift_arithmetic_right", "shift_arithmetic_right_imm", "shift_arithmetic_right_imm_alt"}
ShiftOps == ShiftLeftOps \cup ShiftLogicalRightOps \cup ShiftArithmeticRightOps

\* the first instruction of an ArithProgram has just been stepped; its
\* operands are still where they were, the destination being A2
SteppedFirst == IsArithProgram(module) /\ last.op = "step_once" /\ cycle_counter = 1
FirstInstruction == module.instructions[1]

\* x shifted by the low five bits of n
ShiftedByLowBits(op, x, n) ==
    CASE op \in ShiftLeftOps -> wrapping_shl(x, n % 32)
      [] op \in ShiftLogicalRightOps -> wrapping_shr(x, n % 32)
      [] op \in ShiftArithmeticRightOps -> i32_wrapping_shr(x, n % 32)

\* C23: every shift instruction (register, immediate and _alt form; logical
\* left, logical right, arithmetic right) uses only the low 5 bits of its
\* amount: the result is the shift of x by n mod 32 and the instruction
\* completes normally, also for n >= 32.
C23_ShiftsUseLowFiveBits ==
    (SteppedFirst /\ FirstInstruction.op \in ShiftOps) =>
        /\ last.res # "Panic"
        /\ last.res = "Ok" =>
            regs["A2"] = ShiftedByLowBits(FirstInstruction.op, get_s1(Self, FirstInstruction),
                                          get_s2(Self, FirstInstruction))

\* what holds of the code: the forms that shift with wrapping_shr/wrapping_shl
\* do as claimed; the two that shift with >> do in a build without overflow
\* checks, or when the amount is below 32
C23_ShiftsExceptPlainShift ==
    (/\ SteppedFirst /\ FirstInstruction.op \in ShiftOps
     /\ \/ FirstInstruction.op \notin {"shift_arithmetic_right_imm",
                                       "shift_arithmetic_right_imm_alt"}
        \/ ~overflow_checks
        \/ get_s2(Self, FirstInstruction) \in 0..31) =>
        /\ last.res # "Panic"
        /\ last.res = "Ok" =>
            regs["A2"] = ShiftedByLowBits(FirstInstruction.op, get_s1(Self, FirstInstruction),
                                          get_s2(Self, FirstInstruction))

----------------------------------------------------------------------------
(* C24: division and remainder *)

\* q and r are the quotient and the remainder of a by b as unsigned numbers,
\* b # 0: a = q * b + r without overflow, r < b
UnsignedDivision(a, b, q, r) ==
    /\ mulhu(q, b) = 0
    /\ wrapping_add(wrapping_mul(q, b), r) = a
    /\ ~LtU(a, wrapping_mul(q, b))
    /\ LtU(r, b)
\* q and r are the quotient and the remainder of a by b as signed numbers,
\* b # 0 and not i32::MIN / -1: a = q * b + r, |r| < |b|, r has the sign of a
SignedDivision(a, b, q, r) ==
    /\ q * b + r = a
    /\ IF b > 0 THEN -b < r /\ r < b ELSE b < r /\ r <= -(b + 1)
    /\ r = 0 \/ (r > 0) = (a > 0)

\* v is what the instruction op gives for a and b by the table
Tabled(op, a, b, v) ==
    CASE op = "div_unsigned" ->
            IF b = 0 THEN v = -1
            ELSE UnsignedDivision(a, b, v, wrapping_sub(a, wrapping_mul(v, b)))
      [] op = "rem_unsigned" -> b # 0 => UnsignedDivision(a, b, divu(a, b), v)
      [] op = "div_signed" ->
            IF b = 0 THEN v = -1
            ELSE IF a = I32_MIN /\ b = -1 THEN v = I32_MIN
            ELSE SignedDivision(a, b, v, a - v * b)
      [] op = "rem_signed" ->
            IF b = 0 THEN TRUE
            ELSE IF a = I32_MIN /\ b = -1 THEN v = 0
            ELSE SignedDivision(a, b, div(a, b), v)

\* r is what a step from s returned: Ok, one instruction further, the
\* destination holding what the table gives
DividedAsTabled(op, s, r) ==
    /\ r.res = "Ok"
    /\ r.st.nth_instruction = s.nth_instruction + 1
    /\ Tabled(op, s.regs["A0"], s.regs["A1"], r.st.regs["A2"])
\* r is what a step from s returned when the observer of register writes
\* rejected the result: Trap, the same instruction still to come, the
\* destination holding what the table gives and no other register changed
DivisionRejected(op, s, r) ==
    /\ r.res = "Trap"
    /\ r.st.nth_instruction = s.nth_instruction
    /\ r.st.nth_basic_block = s.nth_basic_block
    /\ Tabled(op, s.regs["A0"], s.regs["A1"], r.st.regs["A2"])
    /\ \A x \in Reg \ {"A2"} : r.st.regs[x] = s.regs[x]

\* C24 as stated: division and remainder never trap: division by zero
\* gives 0xFFFFFFFF (-1), i32::MIN / -1 gives i32::MIN with remainder 0,
\* every other case is the ordinary two's-complement quotient and remainder,
\* and the instruction advances nth_instruction by 1.
C24_DivisionNeverTraps ==
    (/\ IsArithProgram(module) /\ FirstInstruction.op \in DivRemOps
     /\ phase = "live" /\ nth_instruction = 0) =>
        \A ctx \in Contexts(module) : \A cx \in Oracles(module, ctx) :
            DividedAsTabled(FirstInstruction.op, Self, step_once(module, Self, cx))

\* C24, amended: no operands make a division or a remainder trap or panic,
\* and the destination always receives the value of the table.  The step is
\* Ok with nth_instruction advanced by 1 unless a register-write observer is
\* installed and rejects the write of the destination; it is then Trap with
\* nth_instruction unchanged, the destination already written.
C24_DivisionTrapsOnlyByObserver ==
    (/\ IsArithProgram(module) /\ FirstInstruction.op \in DivRemOps
     /\ phase = "live" /\ nth_instruction = 0) =>
        \A ctx \in Contexts(module) : \A cx \in Oracles(module, ctx) :
            IF cx.on_set_reg /\ ~cx.set_reg_ok
            THEN DivisionRejected(FirstInstruction.op, Self, step_once(module, Self, cx))
            ELSE DividedAsTabled(FirstInstruction.op, Self, step_once(module, Self, cx))

\* i32::MIN / -1 has been stepped
C24_Witness ==
    /\ SteppedFirst /\ FirstInstruction.op = "div_signed" /\ last.res = "Ok"
    /\ regs["A0"] = I32_MIN /\ regs["A1"] = -1 /\ regs["A2"] = I32_MIN
    /\ nth_instruction = 1

----------------------------------------------------------------------------
(* C25: branches and the static jump *)

\* the order of the operands as unsigned numbers
UnsignedRank(v) == CASE v = 0 -> 0 [] v = 1 -> 1 [] v = -1 -> 2
\* whether the comparison an instruction is named after holds of a and b; a
\* static jump is a branch whose comparison always holds
ComparisonHolds(op, a, b) ==
    CASE op \in {"branch_less_unsigned", "branch_less_unsigned_imm"} ->
            UnsignedRank(a) < UnsignedRank(b)
      [] op \in {"branch_less_signed", "branch_less_signed_imm"} -> a < b
      [] op \in {"branch_eq", "branch_eq_imm"} -> a = b
      [] op \in {"branch_not_eq", "branch_not_eq_imm"} -> a # b
      [] op \in {"branch_greater_or_equal_unsigned",
                 "branch_greater_or_equal_unsigned_imm"} -> UnsignedRank(a) >= UnsignedRank(b)
      [] op \in {"branch_greater_or_equal_signed",
                 "branch_greater_or_equal_signed_imm"} -> a >= b
      [] op = "branch_less_or_equal_unsigned_imm" -> UnsignedRank(a) <= UnsignedRank(b)
      [] op = "branch_less_or_equal_signed_imm" -> a <= b
      [] op = "branch_greater_unsigned_imm" -> UnsignedRank(a) > UnsignedRank(b)
      [] op = "branch_greater_signed_imm" -> a > b
      [] op = "jump" -> TRUE

\* r is what dispatching the branch i in state s gave: the block entered is
\* the target or the next one, nth_instruction its first instruction, and the
\* hook ran for it last: its cost is charged, OutOfGas if the balance went
\* below 0
Branched(m, s, i, r, taken) ==
    /\ r.st.nth_basic_block = IF taken THEN i.target ELSE s.nth_basic_block + 1
    /\ r.st.nth_instruction =
         IF taken THEN m.instruction_by_basic_block[i.target + 1] ELSE s.nth_instruction + 1
    /\ Transferred(r) /\ r.log[Len(r.log)].at = r.st.nth_basic_block
    /\ r.st.gas_remaining =
         IF IsSome(s.gas_remaining)
         THEN Some(BigSub(Unwrap(s.gas_remaining),
                          G(m.gas_cost_for_basic_block[r.st.nth_basic_block + 1])))
         ELSE None
    /\ r.res = IF IsSome(r.st.gas_remaining) /\ BigLt0(Unwrap(r.st.gas_remaining))
               THEN "OutOfGas" ELSE "Ok"
    /\ r.st.regs = s.regs /\ r.st.heap = s.heap /\ r.st.stack = s.stack

\* C25: a branch whose comparison holds sets nth_basic_block to the target and
\* nth_instruction to instruction_by_basic_block(target); one whose comparison
\* fails adds 1 to both; either way the new-block hook runs afterwards, so the
\* block entered is charged on the not-taken path as well; a static jump
\* behaves as a branch that is always taken.
C25_BranchTakenOrNot ==
    (/\ IsBranchProgram(module) /\ phase = "live" /\ nth_instruction = 0
     /\ start_execution(module, Self).res = "Ok") =>
        /\ \A ctx \in Contexts(module) : \A cx \in Oracles(module, ctx) :
             Branched(module, start_execution(module, Self).st, FirstInstruction,
                      step_once(module, Self, cx),
                      ComparisonHolds(FirstInstruction.op, regs["A0"],
                                      branch_s2(Self, FirstInstruction)))
        /\ jump(module, Self, 2) = branch(module, Self, TRUE, 2)

\* a branch was not taken and the charge for the next block, of cost 2, used
\* up what a budget of 2 had left after the entry block
C25_Witness ==
    /\ IsBranchProgram(module) /\ FirstInstruction.op = "branch_less_unsigned"
    /\ regs["A0"] = -1 /\ regs["A1"] = 1
    /\ last = [op |-> "step_once", res |-> "OutOfGas"]
    /\ nth_basic_block = 1 /\ nth_instruction = 1 /\ cycle_counter = 1
    /\ gas_remaining = Some(BigSub(G(0), G(1)))

----------------------------------------------------------------------------
(* C26: nth_basic_block is the block of nth_instruction *)

\* every block of m ends in an instruction that ends a block, and has no
\* other such instruction
EachBlockEndsInTerminator(m) ==
    \A n \in 1..Len(m.instructions) :
        (m.instructions[n].op \in ControlOps \cup {"trap"})
            <=> (n = Len(m.instructions) \/ IsBlockStart(m, n))
\* block b of m contains instruction n
BlockContains(m, b, n) ==
    /\ b \in 0..(Len(m.instruction_by_basic_block) - 1)
    /\ m.instruction_by_basic_block[b + 1] <= n
    /\ n < (IF b + 1 < Len(m.instruction_by_basic_block)
            THEN m.instruction_by_basic_block[b + 2] ELSE Len(m.instructions))

\* the outcome r leaves nth_instruction in block nth_basic_block
KeepsBlock(m, r) ==
    r.res # "Panic" => BlockContains(m, r.st.nth_basic_block, r.st.nth_instruction)

\* C26: between instructions, after prepare_for_call, in a module whose
\* blocks each end in a terminator, nth_basic_block is the block that
\* contains nth_instruction; also in the state a step that returned OutOfGas
\* leaves.  prepare_for_call makes it so, and step_once and run keep it so
\* whatever their outcome.
C26_BlockContainsInstruction ==
    (phase = "live" /\ EachBlockEndsInTerminator(module)) =>
        /\ \A in \in CallInputs(module, {FALSE}) :
             get_export(module, in[1]) # None =>
                KeepsBlock(module, prepare_for_call(module, Self, in[1], in[2]))
        /\ BlockContains(module, nth_basic_block, nth_instruction) =>
             \A cx \in AllCx :
                /\ KeepsBlock(module, step_once(module, Self, cx))
                /\ KeepsBlock(module, run(module, Self, cx, Fuel))

\* a step has fallen through into block 2 and its charge gave OutOfGas
C26_Witness ==
    /\ last = [op |-> "step_once", res |-> "OutOfGas"] /\ phase = "live"
    /\ EachBlockEndsInTerminator(module)
    /\ nth_basic_block = 2 /\ nth_instruction = 3 /\ cycle_counter = 3

----------------------------------------------------------------------------
(* C27: what an instruction that is not a control transfer leaves alone *)

\* s is the state in which the instruction i was dispatched, t the state it
\* left on success
NonControlFrame(i, s, t) ==
    /\ t.nth_instruction = s.nth_instruction + 1
    /\ t.nth_basic_block = s.nth_basic_block
    /\ t.return_to_host = s.return_to_host
    /\ t.gas_remaining = s.gas_remaining
    /\ IF i.op \in StoreOps THEN t.regs = s.regs
       ELSE /\ \A r \in Reg \ {i.d} : t.regs[r] = s.regs[r]
            /\ t.heap = s.heap /\ t.stack = s.stack

\* r is the outcome of a step that started with the outcome e of the entry
\* into the block
FrameOfStep(i, e, r) == (e.res = "Ok" /\ r.res = "Ok") => NonControlFrame(i, e.st, r.st)

\* C27: every instruction that is not a control transfer (arithmetic on
\* registers and immediates, comparisons, load_imm, move_reg, cmov, loads,
\* stores) and succeeds adds 1 to nth_instruction and leaves nth_basic_block,
\* return_to_host and gas_remaining unchanged; a register operation changes
\* no register but its destination, and no memory.
C27_NonControlFrame ==
    (IsArithProgram(module) /\ phase = "live" /\ nth_instruction = 0) =>
        \A cx \in AllCx :
            FrameOfStep(FirstInstruction, start_execution(module, Self),
                        step_once(module, Self, cx))

\* with gas metering, a store of a byte into the heap has been stepped: the
\* balance is the budget less the cost of the block
C27_Witness ==
    /\ SteppedFirst /\ FirstInstruction.op = "store_indirect_u8" /\ last.res = "Ok"
    /\ regs["A0"] = 1 /\ regs["A1"] = 1 /\ heap[2] = 1
    /\ gas_remaining = Some(G(MaxGas - 1))
    /\ nth_instruction = 1 /\ nth_basic_block = 0 /\ ~return_to_host

----------------------------------------------------------------------------
(* C28: the return address of a static call *)

\* the instruction at nth_instruction, if any
CurrentInstruction(m, s) ==
    IF s.nth_instruction \in 0..(Len(m.instructions) - 1)
    THEN m.instructions[s.nth_instruction + 1] ELSE NoInstr

\* back is what a dynamic jump to the address in ra gave after the call: it
\* has entered the block after the one the call was made from (s)
ReturnedBehind(m, s, back) ==
    /\ back.res \in {"Ok", "OutOfGas"}
    /\ back.st.nth_basic_block = s.nth_basic_block + 1
    /\ Some(back.st.nth_instruction) = instruction_by_basic_block(m, s.nth_basic_block + 1)
    /\ Transferred(back)

\* r is what the call i gave in state s: ra holds the return address, no
\* other register changed, and a dynamic jump through ra gave back
ReturnAddressWritten(m, s, i, r, back) ==
    /\ Some(r.st.regs[i.d])
         = Some(Unwrap(jump_table_index_by_basic_block(m, s.nth_basic_block + 1))
                * VM_CODE_ADDRESS_ALIGNMENT)
    /\ \A x \in Reg \ {i.d} : r.st.regs[x] = s.regs[x]
    /\ ReturnedBehind(m, s, back)
\* the call has written ra and jumped: the target block has been entered
CalledAndBack(m, s, i, r, back) ==
    /\ r.res \in {"Ok", "OutOfGas"}
    /\ ReturnAddressWritten(m, s, i, r, back)
    /\ r.st.nth_basic_block = i.target
    /\ Some(r.st.nth_instruction) = instruction_by_basic_block(m, i.target)
    /\ Transferred(r) /\ r.log[Len(r.log)].at = i.target
\* the call has written ra and was then aborted by the observer of register
\* writes: Trap at the call, no block entered, no gas charged
CallRejected(m, s, i, r, back) ==
    /\ r.res = "Trap"
    /\ ReturnAddressWritten(m, s, i, r, back)
    /\ SamePlace(s, r.st) /\ ~Transferred(r)
    /\ r.st.return_to_host = s.return_to_host

\* C28 as stated: call(ra, target) writes
\* jump_table_index_by_basic_block(pc_block + 1) * alignment to ra and then
\* jumps to target; a later dynamic jump to the address in ra, offset 0,
\* lands on block pc_block + 1 of the call site.
C28_ReturnAddressRoundTrip ==
    (/\ phase = "live" /\ CurrentInstruction(module, Self).op = "call"
     /\ BlockContains(module, nth_basic_block, nth_instruction)
     /\ IsSome(jump_table_index_by_basic_block(module, nth_basic_block + 1))) =>
        \A cx \in AllCx :
            CalledAndBack(module, Self, CurrentInstruction(module, Self),
                fetch_and_visit(module, Self, cx),
                dynamic_jump(module, fetch_and_visit(module, Self, cx).st, cx, None,
                             CurrentInstruction(module, Self).d, 0))

\* C28, amended: call(ra, target) always writes the return address to ra,
\* and a dynamic jump to the address in ra, offset 0, lands on block
\* pc_block + 1 of the call site.  The call then jumps to target unless a
\* register-write observer is installed and rejects the write of ra: it is
\* then Trap, with the position, memory and gas_remaining of the call site
\* and no block entered.
C28_RoundTripUnlessAborted ==
    (/\ phase = "live" /\ CurrentInstruction(module, Self).op = "call"
     /\ BlockContains(module, nth_basic_block, nth_instruction)
     /\ IsSome(jump_table_index_by_basic_block(module, nth_basic_block + 1))) =>
        \A cx \in AllCx :
            IF cx.on_set_reg /\ ~cx.set_reg_ok
            THEN CallRejected(module, Self, CurrentInstruction(module, Self),
                     fetch_and_visit(module, Self, cx),
                     dynamic_jump(module, fetch_and_visit(module, Self, cx).st, cx, None,
                                  CurrentInstruction(module, Self).d, 0))
            ELSE CalledAndBack(module, Self, CurrentInstruction(module, Self),
                     fetch_and_visit(module, Self, cx),
                     dynamic_jump(module, fetch_and_visit(module, Self, cx).st, cx, None,
                                  CurrentInstruction(module, Self).d, 0))

\* the call of block 2 and the jump through T0 in block 4 have been stepped:
\* T0 holds 4, the address of jump-table entry 1, and block 3 is entered
C28_Witness ==
    /\ module.instructions = FlowProgram.instructions
    /\ last = [op |-> "step_once", res |-> "Ok"]
    /\ cycle_counter = 3 /\ regs["T0"] = 4
    /\ nth_basic_block = 3 /\ nth_instruction = 4

----------------------------------------------------------------------------
(* C29: run and repeated step_once *)

\* step_once called until it returns an error or return_to_host is set, for
\* at most fuel calls: the state and the outcome of the last call, and the
\* events of all of them
RECURSIVE StepRepeatedly(_, _, _, _)
StepRepeatedly(m, s, cx, fuel) ==
    IF fuel = 0 THEN Ret(s, "Running", << >>)
    ELSE LET r == step_once(m, s, cx)
         IN IF r.res = "Ok" /\ ~r.st.return_to_host
            THEN LET r2 == StepRepeatedly(m, r.st, cx, fuel - 1)
                 IN Ret(r2.st, r2.res, r.log \o r2.log)
            ELSE r

\* ran and stepped, if they came to an end, ended in the same state with the
\* same outcome, having gone through the same events
SameExecution(ran, stepped) ==
    (ran.res # "Running" \/ stepped.res # "Running") =>
        /\ ran.res = stepped.res
        /\ ran.st = stepped.st
        /\ ran.log = stepped.log

\* C29: run is equivalent to repeating step_once: from the same state and
\* with the same callbacks, step_once called until it returns an error or
\* return_to_host is set goes through the same states and ends in the same
\* state (registers, memory, nth_instruction, nth_basic_block, gas_remaining,
\* cycle_counter) with the same outcome as one call of run.
\* Compared wherever the host still has a turn of the loop to wait for.
C29_RunIsRepeatedStepOnce ==
    (phase = "live" /\ Fuel > 0) =>
        \A cx \in AllCx :
            SameExecution(run(module, Self, cx, Fuel), StepRepeatedly(module, Self, cx, Fuel))

\* a run of four instructions has returned to the host
C29_Witness ==
    /\ module.instructions = FlowProgram.instructions
    /\ IsSome(module.gas_metering)
    /\ last = [op |-> "run", res |-> "Ok"]
    /\ return_to_host /\ cycle_counter = 4 /\ nth_basic_block = 3

----------------------------------------------------------------------------
(* C30: the charge for the entry block *)

\* the events of log that are entries into a block and come before the
\* first dispatch
EntriesBeforeDispatch(log) ==
    {n \in 1..Len(log) : log[n].ev = "enter" /\ \A k \in 1..n : log[k].ev # "dispatch"}
Dispatches(log) == {n \in 1..Len(log) : log[n].ev = "dispatch"}

\* r is what run or step_once gave in state s, in which e is what the entry
\* into the block of s gives
EntryChargedFirst(s, e, r) ==
    /\ r.st.in_new_execution = FALSE
    /\ IF s.in_new_execution
       THEN /\ EntriesBeforeDispatch(r.log) = {1}
            /\ r.log[1] = e.log[1] /\ r.log[1].at = s.nth_basic_block
            /\ e.res = "OutOfGas" =>
                /\ r.res = "OutOfGas"
                /\ Dispatches(r.log) = {}
                /\ r.st = [e.st EXCEPT !.in_new_execution = FALSE]
                /\ r.st.cycle_counter = s.cycle_counter
                /\ r.st.nth_instruction = s.nth_instruction
       ELSE EntriesBeforeDispatch(r.log) = {}

\* C30: the cost of the entry block is charged exactly once for each
\* prepare_for_call, by the first run or step_once after it and before the
\* first instruction is fetched: prepare_for_call sets in_new_execution, that
\* run or step_once clears it, also when the charge gives OutOfGas, and then
\* no instruction is dispatched and cycle_counter stays.
C30_EntryChargedOnce ==
    phase = "live" =>
        /\ \A in \in CallInputs(module, {FALSE}) :
             get_export(module, in[1]) # None =>
                prepare_for_call(module, Self, in[1], in[2]).st.in_new_execution
        /\ \A cx \in AllCx :
             /\ EntryChargedFirst(Self, on_start_new_basic_block(module, Self),
                                  step_once(module, Self, cx))
             /\ EntryChargedFirst(Self, on_start_new_basic_block(module, Self),
                                  run(module, Self, cx, Fuel))

\* a step right after prepare_for_call with budget 0 has returned OutOfGas
\* from the entry into the block of the export
C30_Witness ==
    /\ last = [op |-> "step_once", res |-> "OutOfGas"]
    /\ cycle_counter = 0 /\ ~in_new_execution
    /\ nth_instruction = 0 /\ nth_basic_block = 0
    /\ gas_remaining = Some(BigSub(G(0), G(1)))

----------------------------------------------------------------------------
(* C31: a fetch past the end of the instructions *)

\* values of nth_instruction, as u32, that are no index of an instruction
\* of m: the length, beyond it, 0x80000000, VM_ADDR_RETURN_TO_HOST, u32::MAX
PastTheEnd(m) ==
    {Len(m.instructions), Len(m.instructions) + 1, I32_MIN, VM_ADDR_RETURN_TO_HOST, -1}
InRange(m, n) == n \in 0..(Len(m.instructions) - 1)

\* r is what a fetch in state s gave: Trap, and only the cycle is counted
TrappedOnFetch(s, r) ==
    /\ r.res = "Trap"
    /\ r.st = [s EXCEPT !.cycle_counter = @ + 1]
    /\ r.log = << >>

\* C31: a fetch with nth_instruction >= the number of instructions yields
\* Trap and changes nothing but cycle_counter; so run and step_once on an
\* instance that was never prepared (nth_instruction = VM_ADDR_RETURN_TO_HOST,
\* return_to_host true) return Trap, and between instructions either
\* return_to_host is true or nth_instruction is in range or the next fetch
\* traps.
C31_FetchPastEndTraps ==
    phase = "live" =>
        \A cx \in AllCx :
            /\ \A n \in PastTheEnd(module) :
                 /\ TrappedOnFetch([Self EXCEPT !.nth_instruction = n],
                        fetch_and_visit(module, [Self EXCEPT !.nth_instruction = n], cx))
                 /\ ~in_new_execution =>
                     TrappedOnFetch([Self EXCEPT !.nth_instruction = n],
                         step_once(module, [Self EXCEPT !.nth_instruction = n], cx))
            /\ last.op = "new" =>
                 /\ nth_instruction = VM_ADDR_RETURN_TO_HOST /\ return_to_host
                 /\ TrappedOnFetch(Self, step_once(module, Self, cx))
                 /\ TrappedOnFetch(Self, run(module, Self, cx, 1))
            /\ (~return_to_host /\ ~InRange(module, nth_instruction) /\ ~in_new_execution) =>
                 TrappedOnFetch(Self, step_once(module, Self, cx))

\* an instance that was never prepared has been run twice: Trap, two cycles
\* counted, nothing else changed
C31_Witness ==
    /\ last = [op |-> "run", res |-> "Trap"]
    /\ nth_instruction = VM_ADDR_RETURN_TO_HOST /\ return_to_host
    /\ cycle_counter = 2 /\ regs = [r \in Reg |-> 0]

----------------------------------------------------------------------------
(* C32: cycle_counter counts the fetches *)

\* the fetches attempted by the run or step_once that gave r: the
\* instructions dispatched, and the fetch that found no instruction (the only
\* Trap that leaves nth_instruction out of range, since an instruction that
\* fails does not move it)
FetchesOf(m, r) ==
    Cardinality(Dispatches(r.log))
    + (IF r.res = "Trap" /\ ~InRange(m, r.st.nth_instruction) THEN 1 ELSE 0)

\* r, given in state s, counted every fetch it attempted once
CountsFetches(m, s, r) == r.st.cycle_counter = s.cycle_counter + FetchesOf(m, r)

\* C32: cycle_counter increases by exactly 1 for every fetch attempted by run
\* or step_once (a fetch that traps as out of bounds and an instruction that
\* fails included), is never decreased or reset by prepare_for_call,
\* reset_memory or a new call, and is not changed by host callbacks.
C32_CycleCounterCountsFetches ==
    phase = "live" =>
        /\ \A cx \in AllCx :
            /\ CountsFetches(module, Self, run(module, Self, cx, Fuel))
            /\ CountsFetches(module, Self, step_once(module, Self, cx))
            /\ step_once(module, Self, cx).st.cycle_counter =
                 cycle_counter + (IF start_execution(module, Self).res = "Ok" THEN 1 ELSE 0)
            /\ \A n \in PastTheEnd(module) \cup 0..(Len(module.instructions) - 1) :
                 fetch_and_visit(module, [Self EXCEPT !.nth_instruction = n], cx).st.cycle_counter
                     = cycle_counter + 1
        /\ \A in \in CallInputs(module, BOOLEAN) :
            /\ prepare_for_call(module, Self, in[1], in[2]).st.cycle_counter = cycle_counter
            /\ \A hc \in HostInputs(module) :
                 CountsFetches(module, Self,
                     InterpretedInstance_call(module, Self, in[1], hc, in[2], Fuel))
        /\ reset_memory(module, Self).cycle_counter = cycle_counter
        /\ \A hc \in HostInputs(module) :
             on_hostcall(module, Self, 0, hc).st.cycle_counter = cycle_counter

\* after three cycles of the program that calls the host, a call has been
\* prepared again and the three are still counted
C32_Witness ==
    /\ last = [op |-> "prepare_for_call", res |-> "Ok"]
    /\ cycle_counter = 3
    /\ HasOp(module, {"ecalli"})

----------------------------------------------------------------------------
(* C33: the sizes of heap and stack *)

\* instance s of m has a heap of heap_size bytes and a stack of stack_size bytes
SizesKept(m, s) == Len(s.heap) = m.heap_size /\ Len(s.stack) = m.stack_size

\* C33: heap.len() = heap_size and stack.len() = stack_size in every
\* reachable state: no instruction, no write_memory of a host callback, no
\* prepare_for_call and no reset_memory changes either length.
C33_MemorySizesKept ==
    /\ SizesKept(module, Self)
    /\ SizesKept(module, reset_memory(module, Self))
    /\ \A a \in AccessAddresses(module), n \in AccessLengths(module) :
         SizesKept(module, write_memory(module, Self, a, SubSeq(Rom, 1, n)).st)
    /\ \A in \in CallInputs(module, BOOLEAN) :
         SizesKept(module, prepare_for_call(module, Self, in[1], in[2]).st)
    /\ \A cx \in AllCx :
         /\ SizesKept(module, step_once(module, Self, cx).st)
         /\ SizesKept(module, run(module, Self, cx, Fuel).st)

\* the guest has stored into the heap and the host has filled the stack
C33_Witness ==
    /\ last.res = "Ok" /\ return_to_host
    /\ SubSeq(heap, 1, 2) = into_bytes("u16", 4660)
    /\ stack = SubSeq(Rom, 1, StackSize)

----------------------------------------------------------------------------
(* C34: a register-write observer that fails *)

\* the instruction dispatched in outcome r wrote a register and the observer
\* was told: the event that follows the dispatch
ObservedWrite(r) == Len(r.log) >= 2 /\ r.log[1].ev = "dispatch" /\ r.log[2].ev = "set_reg"

\* r is what the instruction gave in state s with an observer that fails,
\* done what it gave with one that accepts: Trap, the register written as in
\* done, and nothing else of the instruction done
AbortedAfterWrite(s, r, done) ==
    /\ r.res = "Trap"
    /\ r.log = SubSeq(done.log, 1, 2)
    /\ r.st.regs[r.log[2].reg] = r.log[2].val
    /\ r.st.regs = [s.regs EXCEPT ![r.log[2].reg] = r.log[2].val]
    /\ r.st = [s EXCEPT !.regs = r.st.regs, !.cycle_counter = @ + 1]

\* C34: when a register-write observer is installed and fails on the write
\* made by an instruction, the instruction is aborted with Trap:
\* nth_instruction is not advanced and no later effect of the instruction
\* happens (a static call performs no jump and charges no gas, a dynamic call
\* does not set return_to_host or jump); the observer is invoked after the
\* register already holds the new value.
C34_FailedObserverAborts ==
    phase = "live" /\ ~in_new_execution =>
        \A cx \in AllCx :
            cx.on_set_reg /\ ObservedWrite(step_once(module, Self, [cx EXCEPT !.set_reg_ok = TRUE])) =>
                AbortedAfterWrite(Self,
                    step_once(module, Self, [cx EXCEPT !.set_reg_ok = FALSE]),
                    step_once(module, Self, [cx EXCEPT !.set_reg_ok = TRUE]))

\* the observer failed on the return address the static call of @2 wrote to
\* T0: Trap, still at the call, T0 the address of @3
C34_Witness ==
    /\ last = [op |-> "step_once", res |-> "Trap"]
    /\ nth_instruction = 3 /\ nth_basic_block = 2
    /\ regs["T0"] = VM_CODE_ADDRESS_ALIGNMENT
    /\ ~return_to_host

\* the same for the dynamic call of @6, which would have returned to the host
C34_WitnessDynamic ==
    /\ last = [op |-> "step_once", res |-> "Trap"]
    /\ nth_instruction = 7
    /\ wrapping_add(regs["S0"], 4) = VM_ADDR_RETURN_TO_HOST
    /\ regs["T0"] # 0
    /\ ~return_to_host

----------------------------------------------------------------------------
(* C35: the register-write observer sees every write *)

\* the calls of the on_set_reg observer for register x in a log
SetRegEvents(log, x) == {n \in 1..Len(log) : log[n].ev = "set_reg" /\ log[n].reg = x}
\* the last of them
LastSetReg(log, x) == CHOOSE n \in SetRegEvents(log, x) : \A k \in SetRegEvents(log, x) : k <= n

\* every register that outcome r left with another value than it had in
\* state s was reported to the observer, last with the value it has now
WritesObserved(s, r) ==
    \A x \in Reg :
        r.st.regs[x] # s.regs[x] =>
            /\ SetRegEvents(r.log, x) # {}
            /\ r.log[LastSetReg(r.log, x)].val = r.st.regs[x]

\* the outcome took the guest through a host call
CalledHost(r) == \E n \in 1..Len(r.log) : r.log[n].ev = "hostcall"

\* C35: when an on_set_reg observer is installed, it is invoked with
\* (reg, value) after any register write made during run/step_once: writes by
\* instructions and writes made by a host callback through the access
\* handle's set_reg.
C35_EveryWriteObserved ==
    phase = "live" =>
        \A cx \in AllCx :
            cx.on_set_reg /\ cx.set_reg_ok =>
                /\ WritesObserved(Self, step_once(module, Self, cx))
                /\ WritesObserved(Self, run(module, Self, cx, Fuel))

\* what holds of the code: the writes instructions make are observed
C35_InstructionWritesObserved ==
    phase = "live" =>
        \A cx \in AllCx :
            (cx.on_set_reg /\ cx.set_reg_ok /\ ~CalledHost(step_once(module, Self, cx))) =>
                WritesObserved(Self, step_once(module, Self, cx))

----------------------------------------------------------------------------
(* C36: the store observer *)

\* the calls of the on_store observer in a log
StoreEvents(log) == {n \in 1..Len(log) : log[n].ev = "store"}
\* the L low bytes of v, lowest first
LittleEndian(v, L) == [k \in 1..L |-> (v \div Pow2(8 * (k - 1))) % 256]
\* the L bytes of the guest's memory from address a on
BytesAt(m, s, a, L) == [k \in 1..L |-> ByteAt(m, s, a + k - 1)]

\* C36: when a store observer is installed, every successful store
\* instruction notifies it exactly once with (effective address, the bytes
\* written) after the memory has been written, and a store that traps on its
\* address never notifies it; if the observer fails the instruction yields
\* Trap with nth_instruction not advanced while the written bytes remain in
\* memory.
C36_StoreObserverNotified ==
    phase = "live" /\ AtStore(module, Self) =>
        LET i == Unwrap(NextInstr(module, Self))
            addr == EffectiveAddress(Self, i)
            L == AccessLength(i.op)
        IN \A cx \in AllCx :
            LET r == step_once(module, Self, cx)
            IN cx.on_store =>
                /\ r.res = "Ok" =>
                    /\ Cardinality(StoreEvents(r.log)) = 1
                    /\ r.st.nth_instruction = nth_instruction + 1
                /\ ~Writable(module, addr, L) =>
                    /\ r.res = "Trap" /\ StoreEvents(r.log) = {}
                    /\ r.st.heap = heap /\ r.st.stack = stack
                /\ Writable(module, addr, L) =>
                    /\ StoreEvents(r.log) = {Len(r.log)}
                    /\ r.log[Len(r.log)].at = addr
                    /\ r.log[Len(r.log)].bytes = LittleEndian(StoredValue(Self, i), L)
                    /\ BytesAt(module, r.st, addr, L) = LittleEndian(StoredValue(Self, i), L)
                    /\ r.res = (IF cx.store_ok THEN "Ok" ELSE "Trap")
                    /\ ~cx.store_ok => r.st.nth_instruction = nth_instruction

\* the observer failed on the 16-bit store of @1 at the start of the stack:
\* Trap, still at the store, the two bytes in the stack
C36_Witness ==
    /\ IsMemProgram
    /\ last = [op |-> "step_once", res |-> "Trap"]
    /\ nth_instruction = 4
    /\ regs["S0"] = stack_range(module).start
    /\ SubSeq(stack, 1, 2) = <<24, 138>>

----------------------------------------------------------------------------
(* C37: the region rules of the access handle *)

\* nothing of s but the L bytes from address a on differs in t
OnlyBytesChanged(m, s, t, a, L) ==
    /\ t = [s EXCEPT !.heap = t.heap, !.stack = t.stack]
    /\ \A x \in Addresses(m) : (x < a \/ x >= a + L) => ByteAt(m, t, x) = ByteAt(m, s, x)

\* read_memory_into_slice(a, buffer of n bytes) on s obeys the rules
ReadObeysRegions(m, s, a, n, bytes) ==
    /\ IsSome(bytes) <=> Readable(m, a, n)
    /\ IsSome(bytes) => Unwrap(bytes) = BytesAt(m, s, a, n)

\* write_memory(a, data) on s, which gave w, obeys the rules
WriteObeysRegions(m, s, a, data, w) ==
    /\ w.res = "Ok" <=> Writable(m, a, Len(data))
    /\ w.res # "Ok" => w.res = "OutOfRange" /\ w.st = s
    /\ w.res = "Ok" =>
         /\ BytesAt(m, w.st, a, Len(data)) = data
         /\ OnlyBytesChanged(m, s, w.st, a, Len(data))

\* a step from s dispatches the host call
AtHostAccess(m, s) == IsSome(NextInstr(m, s)) /\ Unwrap(NextInstr(m, s)).op = "ecalli"
\* the callback k of the access program, called with the registers of s,
\* panics before it touches the handle: the size of the frame overflows
FrameOverflows(s, k) == k = "read" /\ ~IsSome(video_length(s.regs["A1"], s.regs["A2"]))
\* the access it makes is one the region rules allow: the chunk of
\* ext_rom_read exists and fits a writable region, the frame of
\* ext_output_video lies in a readable one
AccessAllowed(m, s, k) ==
    IF k = "write"
    THEN IsSome(rom_chunk(s.regs["A1"], s.regs["A2"])) /\ Writable(m, s.regs["A0"], s.regs["A2"])
    ELSE /\ Unwrap(video_length(s.regs["A1"], s.regs["A2"])) >= 0
         /\ Readable(m, s.regs["A0"], Unwrap(video_length(s.regs["A1"], s.regs["A2"])))

\* C37: the access handle given to host callbacks obeys the same region rules
\* as guest instructions: read_memory_into(addr, out) succeeds iff
\* [addr, addr+len) lies inside one of the read-only, heap or stack regions;
\* write_memory(addr, bytes) succeeds iff the range lies inside heap or stack
\* and fails for the read-only region; a failing read or write reports
\* out-of-range and changes no memory; a zero-length access succeeds iff addr
\* lies inside an eligible region.
C37_AccessObeysRegions ==
    phase = "live" =>
        /\ \A a \in AccessAddresses(module), n \in AccessLengths(module) :
            /\ ReadObeysRegions(module, Self, a, n, read_memory_into_slice(module, Self, a, n))
            /\ WriteObeysRegions(module, Self, a, SubSeq(Rom, 1, n),
                                 write_memory(module, Self, a, SubSeq(Rom, 1, n)))
        /\ \A a \in AccessAddresses(module) :
            /\ IsSome(read_memory_into_slice(module, Self, a, 0)) <=>
                 \E range \in {ro_data_range(module), heap_range(module), stack_range(module)} :
                     Contains(range, a)
            /\ write_memory(module, Self, a, << >>).res = "Ok" <=>
                 \E range \in {heap_range(module), stack_range(module)} : Contains(range, a)
        /\ AtHostAccess(module, Self) =>
            \A cx \in AllCx :
                cx.on_hostcall =>
                    LET r == step_once(module, Self, cx)
                        k == Unwrap(cx.hc.access)
                    IN IF FrameOverflows(Self, k)
                       THEN r.res = "Panic" /\ r.st.heap = heap /\ r.st.stack = stack
                       ELSE /\ r.res = (IF AccessAllowed(module, Self, k) THEN "Ok" ELSE "Trap")
                            /\ ~AccessAllowed(module, Self, k) =>
                                   r.st.heap = heap /\ r.st.stack = stack
                            /\ k = "read" => r.st.heap = heap /\ r.st.stack = stack

\* the host callback has written one byte to the last byte of the heap
C37_Witness ==
    /\ last = [op |-> "step_once", res |-> "Ok"]
    /\ nth_instruction = 2 /\ ~return_to_host
    /\ regs["A0"] = heap_range(module).end - 1 /\ regs["A1"] = 1 /\ regs["A2"] = 1
    /\ heap[module.heap_size] = Rom[2]

----------------------------------------------------------------------------
(* C38: the conditional moves *)

CmovOps == {"cmov_if_zero", "cmov_if_not_zero"}
\* a step from s dispatches a conditional move
AtCmov(m, s) == IsSome(NextInstr(m, s)) /\ Unwrap(NextInstr(m, s)).op \in CmovOps
\* the condition of conditional move i holds in s: registers[c] is zero, or
\* is not
CmovCondition(s, i) ==
    IF i.op = "cmov_if_zero" THEN s.regs[i.s2] = 0 ELSE s.regs[i.s2] # 0

\* C38: cmov_if_zero(d, s, c) is a conditional move: it sets registers[d] to
\* registers[s] when registers[c] = 0 and leaves registers[d] unchanged when
\* registers[c] # 0; cmov_if_not_zero(d, s, c) sets registers[d] to
\* registers[s] when registers[c] # 0 and leaves it unchanged otherwise.
C38_ConditionalMove ==
    phase = "live" /\ AtCmov(module, Self) =>
        LET i == Unwrap(NextInstr(module, Self))
        IN \A cx \in AllCx :
            step_once(module, Self, cx).res = "Ok" =>
                step_once(module, Self, cx).st.regs =
                    [regs EXCEPT ![i.d] = IF CmovCondition(Self, i) THEN regs[i.s1] ELSE regs[i.d]]

\* what holds of the code: the move is made when the condition holds, and 0
\* is written when it does not
C38_MoveOrZero ==
    phase = "live" /\ AtCmov(module, Self) =>
        LET i == Unwrap(NextInstr(module, Self))
        IN \A cx \in AllCx :
            step_once(module, Self, cx).res = "Ok" =>
                step_once(module, Self, cx).st.regs =
                    [regs EXCEPT ![i.d] = IF CmovCondition(Self, i) THEN regs[i.s1] ELSE 0]

----------------------------------------------------------------------------
(* C39: no dispatch without gas *)

\* the instance is metered and its balance is below zero
InDebt(s) == IsSome(s.gas_remaining) /\ BigLt0(Unwrap(s.gas_remaining))
\* outcome r refused to execute for lack of gas
Refused(r) == r.res = "OutOfGas" /\ Dispatches(r.log) = {}

\* C39: with gas metering enabled, under any sequence of prepare_for_call,
\* run, step_once and reset_memory, an instruction is dispatched only while
\* gas_remaining >= 0: once run or step_once has returned OutOfGas, a further
\* run or step_once without an intervening prepare_for_call that supplies a
\* new budget dispatches no instruction and returns OutOfGas again.
C39_NoDispatchWithoutGas ==
    (/\ phase = "live" /\ IsSome(gas_remaining)
     /\ last.op \in {"run", "step_once"} /\ last.res = "OutOfGas") =>
        \A cx \in AllCx :
            /\ Refused(step_once(module, Self, cx))
            /\ Refused(run(module, Self, cx, Fuel))

\* what holds of the code: the entry of a new execution refuses a balance
\* below zero, so after OutOfGas a prepare_for_call that supplies no budget is
\* followed by OutOfGas with nothing dispatched
C39_NewExecutionRefusesDebt ==
    (phase = "live" /\ InDebt(Self)) =>
        \A in \in CallInputs(module, {FALSE}), cx \in AllCx :
            (in[2].gas = None /\ prepare_for_call(module, Self, in[1], in[2]).res = "Ok") =>
                /\ Refused(step_once(module, prepare_for_call(module, Self, in[1], in[2]).st, cx))
                /\ Refused(run(module, prepare_for_call(module, Self, in[1], in[2]).st, cx, Fuel))

----------------------------------------------------------------------------
(* C40: gas bounds execution *)

\* every basic block of m costs at least 1
AllCostsPositive(m) ==
    \A b \in 1..Len(m.gas_cost_for_basic_block) : m.gas_cost_for_basic_block[b] >= 1
\* the turns of its loop a run can take on a budget of at most MaxGas when
\* every pass through a block is paid for: each block at most once per unit
\* of gas, and the turn that finds the gas gone
RunBound(m) == Len(m.instructions) * (MaxGas + 1) + 1
\* a is below b
BigLt(a, b) == BigLe(a, b) /\ a # b

\* the events of a log that change the balance of a metered instance
GasEvents(log) ==
    {n \in 1..Len(log) : log[n].ev \in {"enter", "consume_gas"} /\ IsSome(log[n].before)}
\* in outcome r, given in state s, the balance never rose and fell at every
\* entry into a block
GasFalls(s, r) ==
    /\ \A n \in GasEvents(r.log) :
         /\ BigLe(Unwrap(r.log[n].after), Unwrap(r.log[n].before))
         /\ r.log[n].ev = "enter" => BigLt(Unwrap(r.log[n].after), Unwrap(r.log[n].before))
    /\ BigLe(Unwrap(r.st.gas_remaining), Unwrap(s.gas_remaining))
\* a callback that is handed the instance in state s and calls consume_gas(a)
\* and then consume_gas(b) does not raise the balance
ConsumingTwiceFalls(s, a, b) ==
    /\ BigLe(Unwrap(consume_gas(s, a).gas_remaining), Unwrap(s.gas_remaining))
    /\ BigLe(Unwrap(consume_gas(consume_gas(s, a), b).gas_remaining),
             Unwrap(consume_gas(s, a).gas_remaining))
\* the run that gave r came back to the host
Returned(r) == r.res \in {"Ok", "Trap", "OutOfGas"}

\* C40: gas bounds execution: with gas metering enabled, a finite budget,
\* every basic block's cost >= 1 and host callbacks that always return, every
\* run eventually returns Ok, Trap or OutOfGas; gas_remaining never increases
\* during a run and strictly decreases at every basic-block entry.
C40_GasBoundsExecution ==
    (phase = "live" /\ IsSome(gas_remaining) /\ AllCostsPositive(module)) =>
        /\ \A cx \in AllCx :
            /\ Returned(run(module, Self, cx, RunBound(module)))
            /\ GasFalls(Self, run(module, Self, cx, RunBound(module)))
        /\ AtHostAccess(module, Self) =>
            \A a \in ConsumeAmounts, b \in ConsumeAmounts :
                ConsumingTwiceFalls(start_execution(module, Self).st, a, b)

\* what holds of the code: a run on a budget the host supplied, with
\* callbacks that consume gas at most once, returns within the bound, and the
\* balance never rises in it and falls at every entry into a block
C40_BudgetedRunBounded ==
    (phase = "live" /\ IsSome(gas_remaining) /\ AllCostsPositive(module)) =>
        \A in \in CallInputs(module, {FALSE}), cx \in AllCx :
            (in[2].gas # None /\ prepare_for_call(module, Self, in[1], in[2]).res = "Ok") =>
                /\ Returned(run(module, prepare_for_call(module, Self, in[1], in[2]).st, cx,
                                RunBound(module)))
                /\ GasFalls(prepare_for_call(module, Self, in[1], in[2]).st,
                            run(module, prepare_for_call(module, Self, in[1], in[2]).st, cx,
                                RunBound(module)))

\* the same for the loop of the control-flow program, whose blocks all cost 1
\* or more but for @5: the run returns within the bound, and the balance
\* falls at every entry into a block that costs something
C40_LoopEndsByGas ==
    (phase = "live" /\ IsSome(gas_remaining)) =>
        \A in \in CallInputs(module, {FALSE}), cx \in AllCx :
            (in[2].gas # None /\ prepare_for_call(module, Self, in[1], in[2]).res = "Ok") =>
                LET r == run(module, prepare_for_call(module, Self, in[1], in[2]).st, cx,
                             RunBound(module))
                IN /\ Returned(r)
                   /\ \A n \in GasEvents(r.log) :
                        /\ BigLe(Unwrap(r.log[n].after), Unwrap(r.log[n].before))
                        /\ (r.log[n].ev = "enter"
                            /\ module.gas_cost_for_basic_block[r.log[n].at + 1] >= 1) =>
                               BigLt(Unwrap(r.log[n].after), Unwrap(r.log[n].before))

====
